---- MODULE Spec2Model ----
(***************************************************************************)
(* A state-machine model of the core of the Bolt kernel:                   *)
(*   - the physical memory manager   (sys/kernel/kern/pmm.rs)              *)
(*   - the hardware address translation layer                              *)
(*                                   (sys/kernel/arch/x86_64/src/hat.rs)   *)
(*   - the IDT and run_once!         (sys/kernel/arch/x86_64/src/trap.rs,  *)
(*                                    sys/kernel/kern/utils.rs)            *)
(*   - trap dispatch and the scoped helpers without_interrupts and         *)
(*     with_userspace_access         (sys/kernel/kern/trap.rs,             *)
(*                                    sys/kernel/arch)                     *)
(*   - the entry functions and the HHDM base                               *)
(*                                   (sys/kernel/arch, kern/vm.rs)         *)
(*   - the panic handler             (sys/kernel/kern/panic.rs)            *)
(*   - FrameAllocator over the PMM   (sys/kernel/kern/pmm.rs, kern/vm.rs)  *)
(*   - traps taken inside the PMM    (kern/pmm.rs, kern/trap.rs)           *)
(*   - trap_common and catch_sysenter                                      *)
(*                                   (sys/kernel/arch/x86_64/src/trap.rs)  *)
(*   - the syscall entry, the interrupt stacks and the stubs' return paths *)
(*                                   (arch/x86_64/src/trap.rs, cpu.rs)     *)
(*   - the owners of the frames of the PMM        (kern/pmm.rs)            *)
(*   - the global allocator                       (kern/kalloc.rs)         *)
(*   - register_executable                        (kern/panic.rs)          *)
(* Pointers into the direct map are modelled by the physical address they  *)
(* refer to (the HHDM offset is a constant added on every dereference),    *)
(* except where a pointer is handed out and translated back.               *)
(***************************************************************************)
EXTENDS Integers, Sequences, FiniteSets, TLC

VARIABLES
    physmap,    \* PHYSMAP: the LinkedListPmm (head, tail, the linked PhysRegion nodes)
    pmm_last,   \* the last PMM call: its arguments, the list before it, its result
    pmm_panic,  \* TRUE once an assertion of the PMM has failed (the kernel halts)
    lock,       \* the SpinMutex around PHYSMAP: TRUE while a guard is alive
    cpu,        \* per CPU: where it is in its PMM call, the call, what it has read,
                \* and the allocations it holds
    seq_physmap,\* the list obtained by running the completed calls one after another
    smp_last,   \* the last call completed by some CPU and what the sequential run gave
    ncalls,     \* the number of PMM calls issued by the CPUs
    cpu_features, \* CPU_FEATURES: the probed feature set
    mmu_info,   \* MMU_INFO
    initial_ptes, \* INITIAL_PTES: the shared top-level entries
    pt,         \* the page-table pages: table address -> (index -> Pte), the
                \* all-zero entries left out
    nt,         \* the number of page-table pages handed out so far
    hats,       \* the Hats created so far (hats[1] is KERNEL_HAT)
    hat_pc,     \* "boot" before hat::init, "ready" after it, "panic" once halted
    hat_last,   \* the last Hat call: its arguments, the pages it changed as they
                \* were before it, its result
    hat_calls,  \* the number of Hat calls made
    trap_stubs, \* trap_stubs: the entry address of each vector's stub
    idt,        \* IDT.descriptors: 256 gate descriptors of 128 bits
    run_state,  \* RUN_STATE of the run_once! block in trap::init
    trap_cpu,   \* per CPU: where it is in trap::init and its local descriptors
    idt_runs,   \* the CPUs that executed the run_once! block, in order
    trap_last,  \* the last trap dispatched: the frame and how dispatch ended
    arch,       \* the architecture of the CPU that runs the scoped helpers
    status,     \* its RFLAGS (x86_64) or sstatus (RISC-V), as the set of one bits
    smap_enabled, \* SMAP_ENABLED
    scopes,     \* the without_interrupts / with_userspace_access calls in
                \* progress, outermost first, each with its saved local
    scope_last, \* the last step of a scoped helper: the instructions it
                \* executed and the status register when its scope was entered
    HHDM_BASE,  \* the static of kern/vm.rs
    boot,       \* the boot CPU: the architecture, what the boot loader handed
                \* over, the position in the entry function, the frames freed
    hhdm_log,   \* the writes of HHDM_BASE, the PMM calls and the translations
                \* made so far, each with the value HHDM_BASE had
    IN_PANIC,   \* the static of rust_panic
    writer,     \* the SpinMutex WRITER of __print: 0 or the CPU that holds it
    panics,     \* per CPU: the calls of rust_panic in progress, outermost first
    rflags,     \* per CPU: RFLAGS as the set of one bits
    panic_swaps,  \* the panics that have swapped IN_PANIC, in order
    panic_traces, \* the panics that have called trace_stack, in order
    zeroed,     \* the allocated frames whose bytes are all zero
    held,       \* the allocations handed out by FrameAllocator and not yet returned
    falloc_last, \* the last FrameAllocator call: its layout, the list before it, its result
    tss,        \* per CPU: the interrupt-stack slots ist[1..7] of its Tss
    ist_cpu,    \* per CPU: where it is in the loop over the ISTs of trap::init,
                \* and the physical address alloc_frames returned for each IST
    KERNEL_ELF, \* the RwLock<Option<Vec<u8>>> of panic.rs: its holder and its value
    exec_cpu    \* per CPU: where it is in register_executable, its argument, its result

pmmVars == <<physmap, pmm_last, pmm_panic>>
smpVars == <<lock, cpu, seq_physmap, smp_last, ncalls>>

hatVars == <<cpu_features, mmu_info, initial_ptes, pt, nt, hats, hat_pc, hat_last,
             hat_calls>>

idtVars == <<trap_stubs, idt, run_state, trap_cpu, idt_runs>>

trapVars == <<trap_last>>

scopeVars == <<arch, status, smap_enabled, scopes, scope_last>>

bootVars == <<HHDM_BASE, boot, hhdm_log>>

panicVars == <<IN_PANIC, writer, panics, rflags, panic_swaps, panic_traces>>

fallocVars == <<zeroed, held, falloc_last>>

pcpuVars == <<tss, ist_cpu, KERNEL_ELF, exec_cpu>>

sysVars == <<idtVars, trapVars, scopeVars, bootVars, panicVars, fallocVars,
            pcpuVars>>

\* what the actions of one part leave alone
notIdt == <<pmmVars, smpVars, hatVars, trapVars, scopeVars, bootVars, panicVars,
    fallocVars, pcpuVars>>
notTrap == <<pmmVars, smpVars, hatVars, idtVars, scopeVars, bootVars, panicVars,
    fallocVars, pcpuVars>>
notScope == <<pmmVars, smpVars, hatVars, idtVars, trapVars, bootVars, panicVars,
    fallocVars, pcpuVars>>
notBoot == <<pmmVars, smpVars, hatVars, idtVars, trapVars, scopeVars, panicVars,
    fallocVars, pcpuVars>>
notPanic == <<pmmVars, cpu, seq_physmap, smp_last, ncalls, hatVars, idtVars, trapVars,
             scopeVars, bootVars, fallocVars, pcpuVars>>

vars == <<physmap, pmm_last, pmm_panic, lock, cpu, seq_physmap, smp_last, ncalls,
          cpu_features, mmu_info, initial_ptes, pt, nt, hats, hat_pc, hat_last,
          hat_calls, trap_stubs, idt, run_state, trap_cpu, idt_runs, trap_last,
          arch, status, smap_enabled, scopes, scope_last,
          HHDM_BASE, boot, hhdm_log,
          IN_PANIC, writer, panics, rflags, panic_swaps, panic_traces,
          zeroed, held, falloc_last, tss, ist_cpu, KERNEL_ELF, exec_cpu>>

(***************************************************************************)
(* Bounds of the model                                                     *)
(***************************************************************************)
\* physical frames 0 .. MaxFrame-1 exist
MaxFrame == 8
\* the largest frame count passed to one call
MaxLen == 3
\* the number of CPUs calling into the PMM concurrently
NumCpus == 2
\* the number of PMM calls the CPUs issue altogether
MaxCalls == 3
\* the number of calls made on the Hats
MaxHatCalls == 2

(***************************************************************************)
(* Program constants                                                       *)
(***************************************************************************)
PAGE_SIZE == 4096
\* Option::None of a NonNull<PhysRegion> pointer
None == -1

FrameAddrs == { PAGE_SIZE * f : f \in 0 .. (MaxFrame - 1) }

(***************************************************************************)
(* LinkedListPmm                                                           *)
(* A node lives at the physical address `base` of the run it describes, so *)
(* a pointer to a node is that address.  `nodes` holds the linked nodes    *)
(* only: the bytes of a frame whose node has been unlinked are not state.  *)
(***************************************************************************)
PhysRegion(base, len, next, prev) ==
    [base |-> base, len |-> len, next |-> next, prev |-> prev]

LinkedListPmm_new == [head |-> None, tail |-> None, nodes |-> <<>>]

\* write *ptr = v
Store(nodes, ptr, v) ==
    [a \in (DOMAIN nodes) \cup {ptr} |-> IF a = ptr THEN v ELSE nodes[a]]

\* the memory without the node at ptr
Drop(nodes, ptr) == [a \in (DOMAIN nodes) \ {ptr} |-> nodes[a]]

\* remove_region: unlink `region` (a pointer to a linked node)
remove_region(pm, region) ==
    LET r  == pm.nodes[region]
        n1 == IF r.prev # None
                THEN [pm.nodes EXCEPT ![r.prev].next = r.next]
                ELSE pm.nodes
        h1 == IF r.prev # None THEN pm.head ELSE r.next
        n2 == IF r.next # None
                THEN [n1 EXCEPT ![r.next].prev = r.prev]
                ELSE n1
        t1 == IF r.next # None THEN pm.tail ELSE r.prev
    IN  [head |-> h1, tail |-> t1, nodes |-> Drop(n2, region)]

\* the search loop of insert_region: from the tail backwards to the first
\* region whose base is below `base`; yields <<prev, next>>
RECURSIVE insert_walk(_, _, _, _)
insert_walk(pm, base, prev, next) ==
    IF prev = None THEN <<prev, next>>
    ELSE IF pm.nodes[prev].base < base THEN <<prev, next>>
    ELSE insert_walk(pm, base, pm.nodes[prev].prev, prev)

\* a left neighbour that is never joined
MergesPrev_never(prev_end, base) == FALSE

\* coalescing with the left neighbour happens when it ends exactly at base
MergesPrev(prev_end, base) == prev_end = base

\* a right neighbour that is never joined
MergesNext_never(new_end, next_base) == FALSE

\* coalescing with the right neighbour happens when the new run ends at its base
MergesNext(new_end, next_base) == new_end = next_base

\* the check against the left neighbour
PrevAssert(prev_end, base) == prev_end <= base

\* no check against the right neighbour
NextAssert_skipped(new_end, next_base) == TRUE

\* the check against the right neighbour
NextAssert(new_end, next_base) == new_end <= next_base

\* insert_region: [pm |-> the list afterwards, panic |-> an assertion failed]
insert_region(pm, base0, len0) ==
    LET w      == insert_walk(pm, base0, pm.tail, None)
        prev0  == w[1]
        next0  == w[2]
        prev_end == IF prev0 # None
                      THEN pm.nodes[prev0].base + PAGE_SIZE * pm.nodes[prev0].len
                      ELSE 0
        panic1 == prev0 # None /\ ~PrevAssert(prev_end, base0)
        merge1 == prev0 # None /\ MergesPrev(prev_end, base0)
        base1  == IF merge1 THEN pm.nodes[prev0].base ELSE base0
        len1   == IF merge1 THEN len0 + pm.nodes[prev0].len ELSE len0
        prev1  == IF merge1 THEN pm.nodes[prev0].prev ELSE prev0
        new_end == base1 + PAGE_SIZE * len1
        panic2 == next0 # None /\ ~NextAssert(new_end, pm.nodes[next0].base)
        merge2 == next0 # None /\ MergesNext(new_end, pm.nodes[next0].base)
        len2   == IF merge2 THEN len1 + pm.nodes[next0].len ELSE len1
        next2  == IF merge2 THEN pm.nodes[next0].next ELSE next0
        new_node == base1
        \* nodes that are no longer linked: the absorbed neighbours
        gone   == (IF merge1 THEN {prev0} ELSE {})
                    \cup (IF merge2 THEN {next0} ELSE {})
        kept   == [a \in (DOMAIN pm.nodes) \ gone |-> pm.nodes[a]]
        n0     == Store(kept, new_node, PhysRegion(base1, len2, next2, prev1))
        n1     == IF prev1 # None THEN [n0 EXCEPT ![prev1].next = new_node] ELSE n0
        h1     == IF prev1 # None THEN pm.head ELSE new_node
        n2     == IF next2 # None THEN [n1 EXCEPT ![next2].prev = new_node] ELSE n1
        t1     == IF next2 # None THEN pm.tail ELSE new_node
    IN  IF panic1 \/ panic2
          THEN [pm |-> pm, panic |-> TRUE]
          ELSE [pm |-> [head |-> h1, tail |-> t1, nodes |-> n2], panic |-> FALSE]

\* the search loop of alloc_frames: from the tail backwards to the first
\* node with len >= num_frames; None when there is none
RECURSIVE alloc_walk(_, _, _)
alloc_walk(pm, nodep, num_frames) ==
    IF nodep = None THEN None
    ELSE IF pm.nodes[nodep].len >= num_frames THEN nodep
    ELSE alloc_walk(pm, pm.nodes[nodep].prev, num_frames)

\* carving from the bottom of the run
CarveAddr_bottom(base, new_len) == base

\* the address alloc_frames returns for a node already reduced to new_len
CarveAddr(base, new_len) == base + PAGE_SIZE * new_len

\* alloc_frames under the lock: [pm |-> the list afterwards, ret |-> address or None]
alloc_frames(pm, num_frames) ==
    LET node == alloc_walk(pm, pm.tail, num_frames)
    IN  IF node = None
          THEN [pm |-> pm, ret |-> None]
          ELSE LET new_len == pm.nodes[node].len - num_frames
                   pm1 == [pm EXCEPT !.nodes[node].len = new_len]
                   pm2 == IF new_len = 0 THEN remove_region(pm1, node) ELSE pm1
               IN  [pm |-> pm2, ret |-> CarveAddr(pm.nodes[node].base, new_len)]

\* free_frames under the lock
free_frames(pm, base, num_frames) == insert_region(pm, base, num_frames)

(***************************************************************************)
(* Reading the list                                                        *)
(***************************************************************************)
\* the runs <<base, len>> met following `next` from the head (print_mmap's walk)
RECURSIVE RunsFrom(_, _)
RunsFrom(pm, nodep) ==
    IF nodep = None THEN <<>>
    ELSE <<[base |-> pm.nodes[nodep].base, len |-> pm.nodes[nodep].len]>>
            \o RunsFrom(pm, pm.nodes[nodep].next)

Runs(pm) == RunsFrom(pm, pm.head)

\* the frames (by address) of the run [base, base + n * PAGE_SIZE)
RangeFrames(base, n) == { base + PAGE_SIZE * i : i \in 0 .. (n - 1) }

\* the frames that are free in pm
FreeFrames(pm) ==
    UNION { RangeFrames(Runs(pm)[i].base, Runs(pm)[i].len) : i \in DOMAIN Runs(pm) }

(***************************************************************************)
(* Hardware address translation: addresses and page-table entries          *)
(*                                                                         *)
(* A VirtAddr is a 64-bit word, kept here as three limbs so that every     *)
(* number stays small: lo = bits 0..29, mid = bits 30..47, top = bits      *)
(* 48..63.  A PhysAddr is a number below 2^31.  A Pte is a 64-bit word,    *)
(* kept as addr = the word masked by ADDR_MASK (bits 12..51) and bits =    *)
(* the set of the other bit positions that are set (0..11 and 63).         *)
(***************************************************************************)
PAGE_SHIFT_4K == 12
PAGE_SHIFT_2M == 21
PAGE_SHIFT_1G == 30
PAGE_SIZE_4K == 2 ^ PAGE_SHIFT_4K
PAGE_SIZE_2M == 2 ^ PAGE_SHIFT_2M
PAGE_SIZE_1G == 2 ^ PAGE_SHIFT_1G

\* enum PageSize
Size4KiB == 0
Size2MiB == 1
Size1GiB == 2
PageSizes == {Size4KiB, Size2MiB, Size1GiB}

\* size_of::<Pte>() = 8
PTES_PER_TABLE == PAGE_SIZE \div 8

LimbLo  == 2 ^ 30
LimbMid == 2 ^ 18
LimbTop == 2 ^ 16

VirtAddr(top, mid, lo) == [top |-> top, mid |-> mid, lo |-> lo]

\* VirtAddr += bytes (usize addition; bytes < 2^31)
va_add(v, bytes) ==
    LET lo  == v.lo + bytes
        mid == v.mid + (lo \div LimbLo)
        top == v.top + (mid \div LimbMid)
    IN  VirtAddr(top % LimbTop, mid % LimbMid, lo % LimbLo)

\* self.0 >> shift & 0x1ff, for a shift at which the nine bits lie in one limb
ShiftMask9(v, shift) ==
    IF shift < 30 THEN (v.lo \div (2 ^ shift)) % 512
    ELSE IF shift < 48 THEN (v.mid \div (2 ^ (shift - 30))) % 512
    ELSE (v.top \div (2 ^ (shift - 48))) % 512

\* VirtAddr::index_for
index_for(v, level) == ShiftMask9(v, 12 + 9 * level)

\* v < w as 64-bit unsigned numbers
va_less(v, w) ==
    \/ v.top < w.top
    \/ v.top = w.top /\ v.mid < w.mid
    \/ v.top = w.top /\ v.mid = w.mid /\ v.lo < w.lo

\* Range<VirtAddr>::contains
range_contains(r, v) == ~va_less(v, r.start) /\ va_less(v, r.end)

\* VirtAddr::is_aligned, for a power of two up to 2^30
va_is_aligned(v, align) == v.lo % align = 0

\* PhysAddr::is_aligned
pa_is_aligned(p, align) == p % align = 0

\* bitflags PteFlags: each flag is the set of its bit positions
PteFlags_empty == {}
PRESENT == {0}
WRITE == {1}
USER == {2}
HUGE == {7}
GLOBAL == {8}
NO_EXECUTE == {63}

PARENT_FLAGS == USER \cup WRITE

\* the bit positions set in a number below 2^12
LowBits(x) == IF x = 0 THEN {} ELSE { i \in 0 .. 11 : (x \div (2 ^ i)) % 2 = 1 }

Pte_NULL == [addr |-> 0, bits |-> {}]

\* Pte::new: addr | flags.bits()
Pte_new(addr, flags) ==
    [addr |-> addr - (addr % PAGE_SIZE), bits |-> flags \cup LowBits(addr % PAGE_SIZE)]

\* Pte::addr
Pte_addr(e) == e.addr

\* Pte::present
Pte_present(e) == (PRESENT \subseteq e.bits)

\* Pte::huge
Pte_huge(e) == (HUGE \subseteq e.bits)

\* Pte |= flags
Pte_or(e, flags) == [e EXCEPT !.bits = @ \cup flags]

\* Prot: bit 0 exec, bit 1 write, bit 2 read, bit 3 user (the row labels of
\* ProtMap::new)
Prot_EXEC == 1
Prot_WRITE == 2
Prot_READ == 4
Prot_USER == 8
Prot_has(prot, flag) == (prot \div flag) % 2 = 1
Prots == 0 .. 15

ProtMap_empty == [i \in Prots |-> PteFlags_empty]

\* ProtMap::new
ProtMap_new(nx_bit) ==
    LET rows == <<
            (* --- *) nx_bit,
            (* --x *) PteFlags_empty,
            (* -w- *) WRITE \cup nx_bit,
            (* -wx *) WRITE,
            (* r-- *) nx_bit,
            (* r-x *) PteFlags_empty,
            (* rw- *) WRITE \cup nx_bit,
            (* rwx *) WRITE,
            (* --- *) nx_bit \cup USER,
            (* --x *) PteFlags_empty \cup USER,
            (* -w- *) WRITE \cup nx_bit \cup USER,
            (* -wx *) WRITE \cup USER,
            (* r-- *) nx_bit \cup USER,
            (* r-x *) PteFlags_empty \cup USER,
            (* rw- *) WRITE \cup nx_bit \cup USER,
            (* rwx *) WRITE \cup USER >>
    IN  [i \in Prots |-> rows[i + 1]]

\* the static initialiser of MMU_INFO (per-level arrays are indexed from 1 here)
MmuInfo_static ==
    [nx_bit |-> PteFlags_empty,
     gigapages |-> FALSE,
     protmap |-> ProtMap_empty,
     bits |-> 48,
     levels |-> 4,
     max_level |-> 3,
     noncanonical_hole |-> [start |-> VirtAddr(0, 2 ^ 17, 0),
                            end |-> VirtAddr(LimbTop - 1, 2 ^ 17, 0)],
     page_size |-> <<PAGE_SIZE_4K, PAGE_SIZE_2M, PAGE_SIZE_1G>>,
     pte_flags |-> <<PteFlags_empty, HUGE, HUGE, PteFlags_empty, PteFlags_empty>>,
     pcide |-> FALSE,
     max_page_size |-> Size2MiB,
     global_bit |-> PteFlags_empty]

\* VirtAddr::is_canonical
is_canonical(mi, v) == ~range_contains(mi.noncanonical_hole, v)

\* the part of hat::init that fills MMU_INFO, statement by statement
init_mmu_info(mi, features) ==
    LET m1 == [mi EXCEPT !.protmap = ProtMap_new(mi.nx_bit)]
        m2 == IF "PAGE_SIZE_1GB" \in features
                THEN [m1 EXCEPT !.gigapages = TRUE, !.max_page_size = Size1GiB]
                ELSE m1
        m3 == IF "EXECUTE_DISABLE" \in features
                THEN [m2 EXCEPT !.nx_bit = @ \cup NO_EXECUTE]
                ELSE m2
        m4 == IF "PGE" \in features THEN [m3 EXCEPT !.global_bit = GLOBAL] ELSE m3
        m5 == IF "PCID" \in features THEN [m4 EXCEPT !.pcide = TRUE] ELSE m4
    IN  m5

(***************************************************************************)
(* Page-table pages                                                        *)
(***************************************************************************)
\* page-table pages are handed out from here upwards, one after the other
TableBase == 4096 * PAGE_SIZE

\* the k-th page alloc_page_table / Hat::new obtains
TableAddr(k) == TableBase + PAGE_SIZE * k

\* the content of the page at address `table`: index -> Pte, zero entries left
\* out; a page that is all zero is left out of the memory altogether
Table(ptm, table) == IF table \in DOMAIN ptm THEN ptm[table] ELSE <<>>

\* entry_ptr.read_volatile()
ReadPte(ptm, table, index) ==
    IF index \in DOMAIN Table(ptm, table) THEN ptm[table][index] ELSE Pte_NULL

\* the page at `table` becomes `content`
SetTable(ptm, table, content) ==
    LET dom == IF content = <<>> THEN (DOMAIN ptm) \ {table}
                                 ELSE (DOMAIN ptm) \cup {table}
    IN  [t \in dom |-> IF t = table THEN content ELSE ptm[t]]

\* the entries `es` (index -> Pte) written into one table
WritePtes(ptm, table, es) ==
    LET old  == Table(ptm, table)
        keep == { i \in (DOMAIN old) \cup (DOMAIN es) :
                    (IF i \in DOMAIN es THEN es[i] ELSE old[i]) # Pte_NULL }
    IN  SetTable(ptm, table,
            [i \in keep |-> IF i \in DOMAIN es THEN es[i] ELSE old[i]])

\* entry_ptr.write_volatile(e)
WritePte(ptm, table, index, e) ==
    IF ReadPte(ptm, table, index) = e
      THEN ptm    \* the word already holds e: the memory is as before
      ELSE WritePtes(ptm, table, [i \in {index} |-> e])

\* alloc_page_table: the next fresh page, zeroed
alloc_page_table(ptm, ntc) ==
    [pt |-> SetTable(ptm, TableAddr(ntc), <<>>), nt |-> ntc + 1,
     addr |-> TableAddr(ntc)]

\* kernel entries that are present and nothing more
KernelPteFlags_presentOnly == PRESENT

\* the flags of the kernel's top-level entries: PARENT_FLAGS | PteFlags::PRESENT
KernelPteFlags == PARENT_FLAGS \cup PRESENT

\* the loop of hat::init that fills the upper half of INITIAL_PTES: iteration
\* i obtains the (i - first)-th fresh zeroed page and stores its entry at index i
init_kernel_ptes(ptm, ntc, ptes, first) ==
    LET idx     == first .. (PTES_PER_TABLE - 1)
        page(i) == TableAddr(ntc + (i - first))
        pte(i)  == Pte_new(page(i), KernelPteFlags)
    IN  [pt |-> [t \in (DOMAIN ptm) \ { page(i) : i \in idx } |-> ptm[t]],
         nt |-> ntc + (PTES_PER_TABLE - first),
         ptes |-> [j \in (DOMAIN ptes) \cup idx |->
                    IF j \in idx THEN pte(j) ELSE ptes[j]]]

\* the asid is taken whole
Pcid_unmasked(asid) == asid

\* asid & 0xfff
Pcid(asid) == asid % 4096

\* Hat::new: [pt, nt, hat]
Hat_new(ptm, ntc, mi, ptes, asid) ==
    LET addr == TableAddr(ntc)
        pcid == Pcid(asid)
    IN  [pt |-> SetTable(ptm, addr, ptes),
         nt |-> ntc + 1,
         hat |-> [top_level |-> addr,
                  mapped_pages |-> [l \in 0 .. 4 |-> 0],
                  pcid |-> pcid,
                  cr3 |-> IF mi.pcide THEN addr + pcid ELSE addr]]

Ok == [kind |-> "Ok", addr |-> None, msg |-> ""]
AlreadyMapped(a) == [kind |-> "AlreadyMapped", addr |-> a, msg |-> ""]
Panic(msg) == [kind |-> "panic", addr |-> None, msg |-> msg]

NoHatCall == [op |-> "none", hat |-> 0, virt |-> VirtAddr(0, 0, 0), phys |-> 0,
              size |-> 0, page_size |-> Size4KiB, prot |-> 0,
              changed |-> <<>>, pre_nt |-> 0, ret |-> Ok, prev_phys |-> None,
              asid |-> 0]

\* the pages in which two memories differ, with their content in the first
Changed(before, after) ==
    [t \in { u \in (DOMAIN before) \cup (DOMAIN after) :
                Table(before, u) # Table(after, u) } |-> Table(before, t)]

\* the memory before a call, from the memory after it and the pages it changed
Before(after, changed) ==
    [t \in { u \in (DOMAIN after) \cup (DOMAIN changed) :
                (IF u \in DOMAIN changed THEN changed[u] ELSE after[u]) # <<>> }
        |-> IF t \in DOMAIN changed THEN changed[t] ELSE after[t]]

HatIdle ==
    /\ cpu_features = {}
    /\ mmu_info = MmuInfo_static
    /\ initial_ptes = <<>>
    /\ pt = <<>>
    /\ nt = 0
    /\ hats = <<>>
    /\ hat_pc = "boot"
    /\ hat_last = NoHatCall
    /\ hat_calls = 0

(***************************************************************************)
(* The PMM driven by one CPU                                               *)
(***************************************************************************)
NoCall == [op |-> "none", base |-> None, n |-> 0, pre |-> LinkedListPmm_new,
           ret |-> None, panic |-> FALSE]

CPUs == 1 .. NumCpus

IdleCpu == [pc |-> "idle", op |-> "none", base |-> None, n |-> 0,
            snap |-> [pm |-> LinkedListPmm_new, ret |-> None, panic |-> FALSE],
            held |-> {}]

NoSmpCall == [cpu |-> 0, op |-> "none", base |-> None, n |-> 0, ret |-> None,
              seq_ret |-> None, contended |-> FALSE]

SmpIdle ==
    /\ lock = FALSE
    /\ cpu = [c \in CPUs |-> IdleCpu]
    /\ seq_physmap = LinkedListPmm_new
    /\ smp_last = NoSmpCall
    /\ ncalls = 0

(***************************************************************************)
(* The interrupt descriptor table (sys/kernel/arch/x86_64/src/trap.rs).    *)
(* A u128 or usize value that does not fit a model integer is the set of   *)
(* the positions of its one bits: | is the union, & the intersection.      *)
(***************************************************************************)
Bits(n) == { i \in 0 .. 30 : (n \div 2^i) % 2 = 1 }

RECURSIVE BitsValue(_)
BitsValue(x) ==
    IF x = {} THEN 0
    ELSE LET b == CHOOSE c \in x : TRUE IN 2^b + BitsValue(x \ {b})

\* x << k in 128 bits
Shl(x, k) == { b + k : b \in { c \in x : c + k <= 127 } }

\* (x >> lo) & (2^(hi-lo+1) - 1), as bits
FieldBits(x, lo, hi) == { b - lo : b \in x \cap (lo .. hi) }

Field(x, lo, hi) == BitsValue(FieldBits(x, lo, hi))

Ring0 == 0
Ring3 == 3
Dpl_Kernel == Ring0
Dpl_User == Ring3

Ist_None == 0
Ist1 == 1
Ist2 == 2
Ist3 == 3
Ist4 == 4

Vector_DEBUG == 1
Vector_NON_MASKABLE_INTERRUPT == 2
Vector_DOUBLE_FAULT == 8
Vector_MACHINE_CHECK == 18
Vector_SYSCALL == 128

Vectors == 0 .. 255

\* offset_of!(Gdt, kernel_code) | Rpl::Kernel
Selector_KCODE == 8

Vector_ist(v) ==
    CASE v = Vector_DEBUG -> Ist1
      [] v = Vector_DOUBLE_FAULT -> Ist2
      [] v = Vector_NON_MASKABLE_INTERRUPT -> Ist3
      [] v = Vector_MACHINE_CHECK -> Ist4
      [] OTHER -> Ist_None

\* the value of (Dpl as u128) << 46 for the vector
GateDpl(v) ==
    IF v = Vector_SYSCALL THEN Shl(Bits(Dpl_User), 46) ELSE Shl(Bits(Dpl_Kernel), 46)

\* the descriptor the loop body stores in descriptors[v]
GateDescriptor(v, offset) ==
    Shl(Bits(142), 40)
        \cup GateDpl(v)
        \cup Shl(Bits(Vector_ist(v)), 32)
        \cup Shl(Bits(Selector_KCODE), 16)
        \cup Shl(offset \cap (32 .. 63), 32)
        \cup Shl(offset \cap (16 .. 31), 32)
        \cup (offset \cap (0 .. 15))

\* the stub tables the linker may produce: the address of the first stub (its
\* bits from 31 up, and the rest as a number) and the size of a stub
StubTables ==
    { [high |-> 31 .. 63, low |-> 305400496, stride |-> 16],
      [high |-> {},       low |-> 2117632,   stride |-> 8],
      [high |-> 47 .. 63, low |-> 65520,     stride |-> 32],
      [high |-> {},       low |-> 1048576,   stride |-> 16] }

StubAddress(t, v) == t.high \cup Bits(t.low + t.stride * v)

NoDescriptors == [v \in Vectors |-> {}]

NOT_RUN == 0
RUNNING == 1
HAS_RUN == 2

\* AtomicU32::compare_exchange_weak on a machine whose compare-and-swap does
\* not fail spuriously (lock cmpxchg)
CompareExchange_blind(cur, expected, new) == [ok |-> TRUE, seen |-> cur, val |-> new]

CompareExchange(cur, expected, new) ==
    IF cur = expected THEN [ok |-> TRUE, seen |-> cur, val |-> new]
    ELSE [ok |-> FALSE, seen |-> cur, val |-> cur]

IdleTrapCpu == [pc |-> "entry", spun |-> FALSE, descriptors |-> NoDescriptors]

IdtIdle ==
    /\ trap_stubs = [v \in Vectors |-> {}]
    /\ idt = NoDescriptors
    /\ run_state = NOT_RUN
    /\ trap_cpu = [c \in CPUs |-> IdleTrapCpu]
    /\ idt_runs = <<>>

(***************************************************************************)
(* The scoped helpers without_interrupts (arch/x86_64/src/trap.rs,         *)
(* arch/riscv/src/trap.rs) and with_userspace_access                       *)
(* (arch/x86_64/src/vm.rs), and the instructions they execute              *)
(***************************************************************************)
MaxDepth == 3

\* bitstruct Rflags: a field of the given width at the given shift
Rflags_IF == { 9 }
Rflags_AC == { 18 }

\* Rflags::contains
Rflags_contains(bits, other) == bits \cap other = other

\* the immediate 0x2 of the csr instructions: sstatus.SIE
Sstatus_SIE == Bits(2)

\* pushfq; cli; pop
push_cli(bits) == [status |-> bits \ Rflags_IF, ret |-> Rflags_contains(bits, Rflags_IF)]

\* pushfq; stac; pop
push_stac(bits) == [status |-> bits \cup Rflags_AC, ret |-> Rflags_contains(bits, Rflags_AC)]

sti(bits) == bits \cup Rflags_IF
cli(bits) == bits \ Rflags_IF
clac(bits) == bits \ Rflags_AC

\* csrrci rd, sstatus, imm / csrsi sstatus, imm / csrci sstatus, imm
csrrci(bits, imm) == [status |-> bits \ imm, ret |-> bits]
csrsi(bits, imm) == bits \cup imm
csrci(bits, imm) == bits \ imm

\* without_interrupts up to the call of f: the status register, the saved
\* local, the instructions executed
NoInt_enter(a, bits) ==
    IF a = "x86_64"
    THEN [status |-> push_cli(bits).status, saved |-> push_cli(bits).ret,
          insns |-> <<"pushfq", "cli", "pop">>]
    ELSE [status |-> csrrci(bits, Sstatus_SIE).status,
          saved |-> csrrci(bits, Sstatus_SIE).ret, insns |-> <<"csrrci">>]

\* whether the saved local says the interrupts were enabled
NoInt_wasEnabled_always(a, saved) == TRUE

NoInt_wasEnabled(a, saved) ==
    IF a = "x86_64" THEN saved ELSE saved \cap Sstatus_SIE # {}

\* without_interrupts after f has returned
NoInt_exit(a, bits, saved) ==
    IF NoInt_wasEnabled(a, saved)
    THEN IF a = "x86_64" THEN [status |-> sti(bits), insns |-> <<"sti">>]
         ELSE [status |-> csrsi(bits, Sstatus_SIE), insns |-> <<"csrsi">>]
    ELSE [status |-> bits, insns |-> <<>>]

\* with_userspace_access (x86_64) up to the call of f
Uaccess_enter(smap, bits) ==
    IF smap
    THEN [status |-> push_stac(bits).status, saved |-> push_stac(bits).ret,
          insns |-> <<"pushfq", "stac", "pop">>]
    ELSE [status |-> bits, saved |-> TRUE, insns |-> <<>>]

\* with_userspace_access (x86_64) after f has returned
Uaccess_exit_always(bits, prev_ac) == [status |-> clac(bits), insns |-> <<"clac">>]

Uaccess_exit(bits, prev_ac) ==
    IF ~prev_ac THEN [status |-> clac(bits), insns |-> <<"clac">>]
    ELSE [status |-> bits, insns |-> <<>>]

\* 1usize << 18: sstatus.SUM
Sstatus_SUM == { 18 }

\* csrrc rd, sstatus, rs / csrs sstatus, rs
csrrc(bits, mask) == [status |-> bits \ mask, ret |-> bits]
csrs(bits, mask) == bits \cup mask

\* with_userspace_access (RISC-V) up to the call of f; the one of trap.rs runs
\* inside without_interrupts, the one of vm.rs does not
RvUaccess_enter(variant, bits) ==
    LET ni == IF variant = "trap" THEN NoInt_enter("riscv64", bits)
              ELSE [status |-> bits, saved |-> {}, insns |-> <<>>]
        r  == csrrc(ni.status, Sstatus_SUM)
    IN  [status |-> r.status, prev_sstatus |-> r.ret, saved |-> ni.saved,
         insns |-> ni.insns \o <<"csrrc">>]

\* with_userspace_access (RISC-V) after f has returned
RvUaccess_exit(variant, bits, prev_sstatus, saved) ==
    LET s1 == IF prev_sstatus \cap Sstatus_SUM # {} THEN csrs(bits, Sstatus_SUM) ELSE bits
        i1 == IF prev_sstatus \cap Sstatus_SUM # {} THEN <<"csrs">> ELSE <<>>
        ni == IF variant = "trap" THEN NoInt_exit("riscv64", s1, saved)
              ELSE [status |-> s1, insns |-> <<>>]
    IN  [status |-> ni.status, insns |-> i1 \o ni.insns]

NoScopeStep == [op |-> "none", kind |-> "none", insns |-> <<>>, entry |-> {}]

\* the status registers a CPU may hold when no helper is running: bit 1 of
\* RFLAGS always reads as one
StatusValues(a) ==
    IF a = "x86_64" THEN { {1} \cup s : s \in SUBSET {6, 9, 18} }
    ELSE SUBSET {1, 5, 18}

ScopeIdle ==
    /\ arch = "x86_64"
    /\ status = {1}
    /\ smap_enabled = FALSE
    /\ scopes = <<>>
    /\ scope_last = NoScopeStep

(***************************************************************************)
(* The entry functions bolt_start (arch/x86_64/src/mod.rs) and _start      *)
(* (arch/riscv/src/mod.rs) and the HHDM base (kern/vm.rs)                  *)
(***************************************************************************)
MaxEntries == 2

\* the calls the entry function makes, in their order in the source, up to
\* the faulting read at the end of trap::init
BootProgram_late(a) ==
    IF a = "x86_64"
    THEN <<"cpu::early_init", "logger::init", "requests", "free_frames", "set_hhdm",
           "to_vec", "cpu::init", "trap::init", "fault">>
    ELSE <<"println", "csrc", "logger::init", "free_frames", "set_hhdm", "to_vec",
           "trap::init", "fault">>

BootProgram(a) ==
    IF a = "x86_64"
    THEN <<"cpu::early_init", "logger::init", "requests", "set_hhdm", "free_frames",
           "to_vec", "cpu::init", "trap::init", "fault">>
    ELSE <<"println", "csrc", "logger::init", "set_hhdm", "free_frames", "to_vec",
           "trap::init", "fault">>

\* the base addresses a boot loader may report
HhdmBases == { VirtAddr(LimbTop - 1, 2 ^ 17, 0), VirtAddr(LimbTop - 1, 2 ^ 17 + 2 ^ 10, 0) }

\* the memory maps a boot loader may hand over: per entry, whether it is usable
\* (every region of the RISC-V free list is)
MemoryMaps(a) ==
    UNION { [1 .. n -> (IF a = "x86_64" THEN BOOLEAN ELSE {TRUE})] : n \in 0 .. MaxEntries }

\* pmm::free_frames: insert_region translates the base of the new node
FreeFramesEvents(base) ==
    << [ev |-> "free_frames", base |-> base], [ev |-> "to_virtual", base |-> base] >>

\* pmm::alloc_frames(..) followed by to_virtual() of the frames it returned
AllocFramesEvents(base, found) ==
    IF found
    THEN << [ev |-> "alloc_frames", base |-> base], [ev |-> "to_virtual", base |-> base] >>
    ELSE << [ev |-> "alloc_frames", base |-> base] >>

\* the interrupt stacks trap::init allocates: one per IST entry in use
IstsInUse == { Vector_ist(v) : v \in Vectors } \ { Ist_None }

RECURSIVE Repeat(_, _)
Repeat(events, n) == IF n = 0 THEN <<>> ELSE events \o Repeat(events, n - 1)

BootIdle ==
    /\ HHDM_BASE = VirtAddr(0, 0, 0)
    /\ boot = [arch |-> "x86_64", hhdm |-> VirtAddr(0, 0, 0), memmap |-> <<>>,
               pc |-> 1, freed |-> 0]
    /\ hhdm_log = <<>>

(***************************************************************************)
(* The panic handler (kern/panic.rs) and the console lock of __print       *)
(* (kern/main.rs)                                                          *)
(***************************************************************************)
MaxPanics == 2

\* AtomicBool::swap: the new value of the flag and the value returned
AtomicSwap(flag, new) == [flag |-> new, ret |-> flag]

\* a call of rust_panic: where it is (before a print, inside __print with
\* WRITER held, at the swap, in get_backtrace, in hcf, in the loop of hcf) and
\* whether the panic was raised under the guard of PHYSMAP
PanicFrame(id, guarded) == [id |-> id, pc |-> "println", saved |-> FALSE,
                            guarded |-> guarded]

\* the prints of rust_panic and trace_stack, and the statement that follows
\* each
PanicPrints == {"println", "trace_stack", "trace lines", "log::error"}

AfterPrint(pc) ==
    CASE pc = "println" -> "swap"
      [] pc = "trace_stack" -> "get_backtrace"
      [] pc = "trace lines" -> "hcf"
      [] pc = "log::error" -> "hcf"

PanicIdle ==
    /\ IN_PANIC = FALSE
    /\ writer = 0
    /\ panics = [c \in CPUs |-> <<>>]
    /\ rflags = [c \in CPUs |-> {1}]
    /\ panic_swaps = <<>>
    /\ panic_traces = <<>>

(***************************************************************************)
(* Trap dispatch (sys/kernel/kern/trap.rs) and the trap frames of the two  *)
(* architectures                                                           *)
(***************************************************************************)
MaxInfo == 63
MaxCause == 20

\* arch/riscv/src/trap.rs: EXCEPTIONS
EXCEPTIONS ==
    <<"instruction address misaligned", "instruction address fault",
      "illegal instruction", "breakpoint", "load address misaligned",
      "load access fault", "store/amo address misaligned",
      "store/amo access fault", "environment call from u-mode",
      "environment call from s-mode", "reserved", "reserved",
      "instruction page fault", "load page fault", "reserved",
      "store/amo page fault">>

NoException == "None"

\* the trap frames: info of x86_64 as a number, cause of RISC-V as its top
\* bit and the rest
X86Frames == [arch : {"x86_64"}, info : (0 .. MaxInfo) \cup {256 + 14, 255}]
RiscvFrames == [arch : {"riscv64"}, msb : BOOLEAN, code : 0 .. MaxCause]

\* <[_]>::get of the table, 0-based
Exceptions_get(i) == IF i < Len(EXCEPTIONS) THEN EXCEPTIONS[i + 1] ELSE NoException

is_exception(tf) ==
    IF tf.arch = "x86_64" THEN (tf.info % 256) < 32 ELSE ~tf.msb

exception(tf) ==
    IF tf.arch = "x86_64" THEN NoException
    ELSE IF is_exception(tf) THEN Exceptions_get(tf.code) ELSE NoException

\* dispatch with the todo!() at its end taken out: the function returns to
\* its caller for a frame that names no exception
dispatch_returns(tf) ==
    IF exception(tf) # NoException
    THEN [panic |-> "fatal exception: {}", name |-> exception(tf)]
    ELSE [panic |-> "none", name |-> NoException]

\* how dispatch ends: it always panics, with one of two messages
dispatch(tf) ==
    IF exception(tf) # NoException
    THEN [panic |-> "fatal exception: {}", name |-> exception(tf)]
    ELSE [panic |-> "not yet implemented: lmao", name |-> NoException]

NoTrap == [tf |-> [arch |-> "none"], end |-> [panic |-> "none", name |-> NoException]]

TrapIdle ==
    /\ trap_last = NoTrap

\* Tss::new(): every interrupt-stack slot is null
Tss_new == [ist |-> [i \in 1 .. 7 |-> VirtAddr(0, 0, 0)]]

\* a CPU that has not reached the loop over the ISTs
IdleIstCpu == [pc |-> "idle", todo |-> <<>>, stacks |-> <<>>]

\* a CPU that has not called register_executable
IdleExecCpu == [pc |-> "idle", elf |-> 0, ret |-> "none", calls |-> 0, oks |-> 0]

PcpuIdle ==
    /\ tss = [c \in CPUs |-> Tss_new]
    /\ ist_cpu = [c \in CPUs |-> IdleIstCpu]
    /\ KERNEL_ELF = [writer |-> 0, value |-> None]
    /\ exec_cpu = [c \in CPUs |-> IdleExecCpu]

\* no FrameAllocator call yet
NoFalloc == [op |-> "none"]

FallocIdle ==
    /\ zeroed = {}
    /\ held = {}
    /\ falloc_last = NoFalloc

SysIdle ==
    /\ IdtIdle
    /\ TrapIdle
    /\ ScopeIdle
    /\ BootIdle
    /\ PanicIdle
    /\ FallocIdle
    /\ PcpuIdle

PmmInit ==
    /\ physmap = LinkedListPmm_new
    /\ pmm_last = NoCall
    /\ pmm_panic = FALSE
    /\ SmpIdle
    /\ HatIdle
    /\ SysIdle

\* free_frames(base, n), n > 0, the range inside the modelled memory
FreeFramesCall ==
    /\ ~pmm_panic
    /\ \E base \in FrameAddrs, n \in 1 .. MaxLen :
          /\ base + PAGE_SIZE * n <= PAGE_SIZE * MaxFrame
          /\ LET r == free_frames(physmap, base, n)
             IN  /\ physmap' = r.pm
                 /\ pmm_panic' = r.panic
                 /\ pmm_last' = [op |-> "free", base |-> base, n |-> n,
                                 pre |-> physmap, ret |-> None, panic |-> r.panic]
    /\ UNCHANGED smpVars
    /\ UNCHANGED <<hatVars, sysVars>>

\* alloc_frames(n)
AllocFramesCall ==
    /\ ~pmm_panic
    /\ \E n \in 0 .. MaxLen :
          LET r == alloc_frames(physmap, n)
          IN  /\ physmap' = r.pm
              /\ pmm_panic' = FALSE
              /\ pmm_last' = [op |-> "alloc", base |-> None, n |-> n,
                              pre |-> physmap, ret |-> r.ret, panic |-> FALSE]
    /\ UNCHANGED smpVars
    /\ UNCHANGED <<hatVars, sysVars>>

PmmNext == FreeFramesCall \/ AllocFramesCall

SpecPmm == PmmInit /\ [][PmmNext]_vars

(***************************************************************************)
(* The PMM called by several CPUs                                          *)
(* alloc_frames and free_frames take PHYSMAP.lock() first and keep the     *)
(* guard until they return.  A call is four steps: it is issued, it takes  *)
(* the lock (spinning until the lock is free), it reads the list, and it   *)
(* writes the list, drops the guard and returns.                           *)
(***************************************************************************)
\* a lock that every CPU takes at once
TryLock_always(locked) == TRUE

\* SpinMutex::lock succeeds only when the mutex is not held
TryLock(locked) == ~locked

\* the memory seeded at boot: frames 1 .. MaxFrame-1 in one run
SmpInit ==
    /\ physmap = free_frames(LinkedListPmm_new, PAGE_SIZE, MaxFrame - 1).pm
    /\ pmm_last = NoCall
    /\ pmm_panic = FALSE
    /\ lock = FALSE
    /\ cpu = [c \in CPUs |-> IdleCpu]
    /\ seq_physmap = physmap
    /\ smp_last = NoSmpCall
    /\ ncalls = 0
    /\ HatIdle
    /\ SysIdle

\* CPU c calls alloc_frames(n)
CpuCallAlloc(c) ==
    /\ ~pmm_panic /\ cpu[c].pc = "idle" /\ ncalls < MaxCalls
    /\ \E n \in 1 .. MaxLen :
          cpu' = [cpu EXCEPT ![c].pc = "spin", ![c].op = "alloc",
                             ![c].base = None, ![c].n = n]
    /\ ncalls' = ncalls + 1
    /\ UNCHANGED <<physmap, pmm_last, pmm_panic, lock, seq_physmap, smp_last>>
    /\ UNCHANGED <<hatVars, sysVars>>

\* CPU c calls free_frames on an allocation it holds
CpuCallFree(c) ==
    /\ ~pmm_panic /\ cpu[c].pc = "idle" /\ ncalls < MaxCalls
    /\ \E h \in cpu[c].held :
          cpu' = [cpu EXCEPT ![c].pc = "spin", ![c].op = "free",
                             ![c].base = h[1], ![c].n = h[2],
                             ![c].held = @ \ {h}]
    /\ ncalls' = ncalls + 1
    /\ UNCHANGED <<physmap, pmm_last, pmm_panic, lock, seq_physmap, smp_last>>
    /\ UNCHANGED <<hatVars, sysVars>>

\* PHYSMAP.lock(): the spin loop leaves when it has taken the lock
CpuLock(c) ==
    /\ ~pmm_panic /\ cpu[c].pc = "spin"
    /\ TryLock(lock)
    /\ lock' = TRUE
    /\ cpu' = [cpu EXCEPT ![c].pc = "locked"]
    /\ UNCHANGED <<physmap, pmm_last, pmm_panic, seq_physmap, smp_last, ncalls>>
    /\ UNCHANGED <<hatVars, sysVars>>

\* what the call does to a list pm
CallOn(pm, op, base, n) ==
    IF op = "alloc"
      THEN [pm |-> alloc_frames(pm, n).pm, ret |-> alloc_frames(pm, n).ret,
            panic |-> FALSE]
      ELSE [pm |-> free_frames(pm, base, n).pm, ret |-> None,
            panic |-> free_frames(pm, base, n).panic]

\* the body reads the list
CpuWalk(c) ==
    /\ ~pmm_panic /\ cpu[c].pc = "locked"
    /\ cpu' = [cpu EXCEPT ![c].pc = "walked",
                          ![c].snap = CallOn(physmap, cpu[c].op, cpu[c].base, cpu[c].n)]
    /\ UNCHANGED <<physmap, pmm_last, pmm_panic, lock, seq_physmap, smp_last, ncalls>>
    /\ UNCHANGED <<hatVars, sysVars>>

\* the body writes the list; the guard is dropped as the call returns
CpuCommit(c) ==
    /\ ~pmm_panic /\ cpu[c].pc = "walked"
    /\ LET r   == cpu[c].snap
           sq  == CallOn(seq_physmap, cpu[c].op, cpu[c].base, cpu[c].n)
           got == IF cpu[c].op = "alloc" /\ r.ret # None
                    THEN {<<r.ret, cpu[c].n>>} ELSE {}
       IN  /\ physmap' = r.pm
           /\ pmm_panic' = r.panic
           /\ seq_physmap' = sq.pm
           /\ smp_last' = [cpu |-> c, op |-> cpu[c].op, base |-> cpu[c].base,
                           n |-> cpu[c].n, ret |-> r.ret, seq_ret |-> sq.ret,
                           contended |-> \E d \in CPUs \ {c} : cpu[d].pc = "spin"]
           /\ cpu' = [cpu EXCEPT ![c].pc = "idle", ![c].held = @ \cup got]
           /\ lock' = IF r.panic THEN lock ELSE FALSE
    /\ UNCHANGED <<pmm_last, ncalls>>
    /\ UNCHANGED <<hatVars, sysVars>>

SmpNext ==
    \E c \in CPUs :
        \/ CpuCallAlloc(c)
        \/ CpuCallFree(c)
        \/ CpuLock(c)
        \/ CpuWalk(c)
        \/ CpuCommit(c)

SpecSmp == SmpInit /\ [][SmpNext]_vars

(***************************************************************************)
(* Hat::map_pages                                                          *)
(***************************************************************************)
\* the kernel is built with debug assertions unless a release build is asked for
DebugAssertions == TRUE

Min(a, b) == IF a <= b THEN a ELSE b

\* the least element of a non-empty set of numbers
Least(S) == CHOOSE x \in S : \A y \in S : x <= y

\* a leaf without the per-level flags
LeafEntry_noLevelFlags(mi, map_phys, prot, map_level) ==
    Pte_new(map_phys, mi.protmap[prot] \cup PRESENT)

\* new_entry: the leaf map_pages writes for the page at map_phys
LeafEntry(mi, map_phys, prot, map_level) ==
    Pte_new(map_phys, mi.protmap[prot] \cup mi.pte_flags[map_level + 1] \cup PRESENT)

\* a present entry is never a conflict
LeafConflict_never(entry, new_entry) == FALSE

\* every present entry is a conflict
LeafConflict_any(entry, new_entry) == Pte_present(entry)

\* "Make sure the entry isn't already present."
LeafConflict(entry, new_entry) == Pte_present(entry) /\ entry # new_entry

\* every request is mapped at the size it names
MapLevel_noDowngrade(mi, page_size) == page_size

\* the page size a request is mapped at
MapLevel(mi, page_size) ==
    IF page_size = Size1GiB /\ ~mi.gigapages THEN Size2MiB ELSE page_size

\* a walk that goes on through a huge entry
ClobbersHuge_unchecked(entry) == FALSE

\* assert!(!entry.huge(), "translation clobbers huge page at {:p}", ..)
ClobbersHuge(entry) == Pte_huge(entry)

\* a fill that runs past the end of the table
TableRun_unbounded(num_pages, table_index) == num_pages

\* cmp::min(num_pages, PTES_PER_TABLE - table_index)
TableRun(num_pages, table_index) == Min(num_pages, PTES_PER_TABLE - table_index)

RECURSIVE MapOuter(_, _)
RECURSIVE MapWalk(_, _, _, _)

\* "Set up all the entries in this table.": the for loop over the entries
\* table_index .. table_index + map_pages - 1 of one table.  The iterations
\* touch different entries, so the loop stops at the first conflicting index
\* having written the ones before it.
MapLeaves(ctx, st, table, table_index) ==
    LET n      == TableRun(st.num_pages, table_index)
        new(i) == LeafEntry(ctx.mi, st.map_phys + i * ctx.page_size, ctx.prot,
                            ctx.map_level)
        old(i) == ReadPte(st.pt, table, table_index + i)
        bad    == { i \in 0 .. (n - 1) : LeafConflict(old(i), new(i)) }
        stop   == IF bad = {} THEN n ELSE Least(bad)
        pt1    == WritePtes(st.pt, table,
                    [j \in table_index .. (table_index + stop - 1)
                        |-> new(j - table_index)])
    IN  IF bad # {}
          THEN [pt |-> pt1, nt |-> st.nt, ret |-> AlreadyMapped(Pte_addr(old(stop))),
                num_pages |-> st.num_pages]
          ELSE MapOuter(ctx,
                 [pt |-> pt1, nt |-> st.nt,
                  map_virt |-> va_add(st.map_virt, n * ctx.page_size),
                  map_phys |-> st.map_phys + n * ctx.page_size,
                  num_pages |-> st.num_pages - n])

\* the inner loop: one step down from `table` at `level`
MapWalk(ctx, st, table, level) ==
    LET table_index == index_for(st.map_virt, level)
        entry0 == ReadPte(st.pt, table, table_index)
    IN  IF level # ctx.map_level
          THEN \* Handle parent entries.
               LET fresh  == ~Pte_present(entry0)
                   page   == alloc_page_table(st.pt, st.nt)
                   entry1 == IF fresh THEN Pte_new(page.addr, PRESENT) ELSE entry0
                   pt1    == IF fresh THEN page.pt ELSE st.pt
                   nt1    == IF fresh THEN page.nt ELSE st.nt
                   entry2 == Pte_or(entry1, PARENT_FLAGS)
               IN  IF ClobbersHuge(entry1)
                     THEN [pt |-> pt1, nt |-> nt1,
                           ret |-> Panic("translation clobbers huge page"),
                           num_pages |-> st.num_pages]
                     ELSE MapWalk(ctx,
                            [st EXCEPT !.pt = WritePte(pt1, table, table_index, entry2),
                                       !.nt = nt1],
                            Pte_addr(entry2), level - 1)
          ELSE MapLeaves(ctx, st, table, table_index)

\* while num_pages > 0 { walk from the top level }
MapOuter(ctx, st) ==
    IF st.num_pages > 0
      THEN MapWalk(ctx, st, ctx.top_level, ctx.mi.max_level)
      ELSE [pt |-> st.pt, nt |-> st.nt, ret |-> Ok, num_pages |-> st.num_pages]

\* Hat::map_pages: [pt, nt, hat, ret]
map_pages(ptm, ntc, mi, hat, virt, phys, size, page_size, prot) ==
    LET map_level == MapLevel(mi, page_size)
        psz == mi.page_size[map_level + 1]
        ctx == [mi |-> mi, top_level |-> hat.top_level, map_level |-> map_level,
                page_size |-> psz, prot |-> prot]
        r   == MapOuter(ctx, [pt |-> ptm, nt |-> ntc, map_virt |-> virt,
                              map_phys |-> phys, num_pages |-> size \div psz])
    IN  IF DebugAssertions /\ ~is_canonical(mi, virt)
          THEN [pt |-> ptm, nt |-> ntc, hat |-> hat,
                ret |-> Panic("assertion failed: virt.is_canonical()")]
        ELSE IF DebugAssertions /\ ~va_is_aligned(virt, psz)
          THEN [pt |-> ptm, nt |-> ntc, hat |-> hat,
                ret |-> Panic("assertion failed: virt.is_aligned(page_size)")]
        ELSE IF DebugAssertions /\ ~pa_is_aligned(phys, psz)
          THEN [pt |-> ptm, nt |-> ntc, hat |-> hat,
                ret |-> Panic("assertion failed: phys.is_aligned(page_size)")]
        ELSE IF DebugAssertions /\ size % psz # 0
          THEN [pt |-> ptm, nt |-> ntc, hat |-> hat,
                ret |-> Panic("assertion failed: pow2::is_aligned!(size, page_size)")]
        ELSE [pt |-> r.pt, nt |-> r.nt, ret |-> r.ret,
              hat |-> IF r.ret.kind = "Ok"
                        THEN [hat EXCEPT !.mapped_pages[map_level] = @ + r.num_pages]
                        ELSE hat]

(***************************************************************************)
(* Hat::unmap_pages                                                        *)
(***************************************************************************)
\* an unmapped entry keeps its address and flags and loses PRESENT only
ClearedEntry_notPresent(entry) == [entry EXCEPT !.bits = @ \ PRESENT]

\* entry_ptr.write_volatile(Pte::NULL)
ClearedEntry(entry) == Pte_NULL

RECURSIVE UnmapOuter(_, _)
RECURSIVE UnmapWalk(_, _, _, _)

\* the for loop over the entries index .. index + unmap_pages - 1 of one
\* table: it stops at the first entry that is not present, having cleared the
\* ones before it
UnmapLeaves(ctx, st, table, index) ==
    LET n      == Min(st.num_pages, PTES_PER_TABLE - index)
        old(i) == ReadPte(st.pt, table, index + i)
        bad    == { i \in 0 .. (n - 1) : ~Pte_present(old(i)) }
        stop   == IF bad = {} THEN n ELSE Least(bad)
        pt1    == WritePtes(st.pt, table,
                    [j \in index .. (index + stop - 1) |-> ClearedEntry(old(j - index))])
    IN  IF bad # {}
          THEN [pt |-> pt1, ret |-> Panic("assertion failed: entry.present()")]
          ELSE UnmapOuter(ctx,
                 [pt |-> pt1,
                  unmap_virt |-> va_add(st.unmap_virt, n * ctx.page_size),
                  num_pages |-> st.num_pages - n])

\* the inner loop: one step down from `table` at `level`
UnmapWalk(ctx, st, table, level) ==
    LET index == index_for(st.unmap_virt, level)
        entry == ReadPte(st.pt, table, index)
    IN  IF level # ctx.map_level
          THEN \* Handle parent entries.
               IF ~Pte_present(entry)
                 THEN [pt |-> st.pt, ret |-> Panic("assertion failed: entry.present()")]
               ELSE IF Pte_huge(entry)
                 THEN [pt |-> st.pt, ret |-> Panic("assertion failed: !entry.huge()")]
               ELSE UnmapWalk(ctx, st, Pte_addr(entry), level - 1)
          ELSE UnmapLeaves(ctx, st, table, index)

\* while num_pages > 0 { walk from the top level }
UnmapOuter(ctx, st) ==
    IF st.num_pages > 0
      THEN UnmapWalk(ctx, st, ctx.top_level, ctx.mi.max_level)
      ELSE [pt |-> st.pt, ret |-> Ok]

\* Hat::unmap_pages: [pt, ret]; a call that returns gives Ok
unmap_pages(ptm, mi, hat, virt, size, page_size) ==
    LET map_level == MapLevel(mi, page_size)
        psz == mi.page_size[map_level + 1]
        ctx == [mi |-> mi, top_level |-> hat.top_level, map_level |-> map_level,
                page_size |-> psz]
    IN  IF DebugAssertions /\ ~va_is_aligned(virt, psz)
          THEN [pt |-> ptm, ret |-> Panic("assertion failed: virt.is_aligned(page_size)")]
        ELSE IF DebugAssertions /\ size % psz # 0
          THEN [pt |-> ptm,
                ret |-> Panic("assertion failed: size & (page_size - 1) == 0")]
        ELSE UnmapOuter(ctx, [pt |-> ptm, unmap_virt |-> virt,
                              num_pages |-> size \div psz])

(***************************************************************************)
(* The HAT: boot, then calls on the Hats                                   *)
(***************************************************************************)
\* the feature sets of the CPUs the model boots on
FeatureSets ==
    { {},
      {"PAGE_SIZE_1GB"},
      {"EXECUTE_DISABLE"},
      {"PGE", "PCID"},
      {"PAGE_SIZE_1GB", "EXECUTE_DISABLE", "PGE", "PCID"} }

\* 0xffff_8000_0000_0000, the first address of the upper half
KernelBase == VirtAddr(LimbTop - 1, 2 ^ 17, 0)

MapVirts == { KernelBase, va_add(KernelBase, PAGE_SIZE_4K) }
MapPhys  == { 0, PAGE_SIZE_2M }
MapProts == { Prot_READ + Prot_WRITE, Prot_READ + Prot_EXEC + Prot_USER }

HatBoot ==
    /\ physmap = LinkedListPmm_new
    /\ pmm_last = NoCall
    /\ pmm_panic = FALSE
    /\ SmpIdle
    /\ cpu_features \in FeatureSets
    /\ mmu_info = MmuInfo_static
    /\ initial_ptes = <<>>
    /\ pt = <<>>
    /\ nt = 0
    /\ hats = <<>>
    /\ hat_pc = "boot"
    /\ hat_last = NoHatCall
    /\ hat_calls = 0
    /\ SysIdle

\* hat::init
HatInitCall ==
    /\ hat_pc = "boot"
    /\ LET mi == init_mmu_info(mmu_info, cpu_features)
           k  == init_kernel_ptes(pt, nt, initial_ptes, PTES_PER_TABLE \div 2)
           h  == Hat_new(k.pt, k.nt, mi, k.ptes, 1)
       IN  /\ mmu_info' = mi
           /\ initial_ptes' = k.ptes
           /\ pt' = h.pt
           /\ nt' = h.nt
           /\ hats' = <<h.hat>>
    /\ hat_pc' = "ready"
    /\ UNCHANGED <<cpu_features, hat_last, hat_calls>>
    /\ UNCHANGED <<pmmVars, smpVars, sysVars>>

\* the start of a range that runs over the end of a table: the last page of
\* the first 2 MiB and of the first GiB of the kernel half, and the page after
\* the former (a request of two 1 GiB pages is beyond the sizes of the model)
CrossVirts ==
    { va_add(KernelBase, (PTES_PER_TABLE - 1) * PAGE_SIZE_4K),
      va_add(KernelBase, PTES_PER_TABLE * PAGE_SIZE_4K),
      va_add(KernelBase, (PTES_PER_TABLE - 1) * PAGE_SIZE_2M) }

\* hats[h].map_pages(virt, phys, size, page_size, prot); `downgraded` admits
\* the 1 GiB requests that are mapped as 512 pages of 2 MiB each
MapPagesAt(virts, prots, downgraded) ==
    /\ hat_pc = "ready" /\ hat_calls < MaxHatCalls
    /\ \E h \in DOMAIN hats, virt \in virts, phys \in MapPhys,
          page_size \in PageSizes, np \in {1, 2}, prot \in prots :
          /\ IF downgraded THEN TRUE ELSE MapLevel(mmu_info, page_size) = page_size
          /\ np <= PAGE_SIZE_1G \div mmu_info.page_size[page_size + 1]
          /\ LET size == np * mmu_info.page_size[page_size + 1]
             IN  \E r \in { map_pages(pt, nt, mmu_info, hats[h], virt, phys, size,
                                      page_size, prot) } :
                 /\ pt' = r.pt
                 /\ nt' = r.nt
                 /\ hats' = [hats EXCEPT ![h] = r.hat]
                 /\ hat_pc' = IF r.ret.kind = "panic" THEN "panic" ELSE "ready"
                 /\ hat_last' =
                       [op |-> "map", hat |-> h, virt |-> virt, phys |-> phys,
                        size |-> size, page_size |-> page_size, prot |-> prot,
                        changed |-> Changed(pt, r.pt), pre_nt |-> nt, ret |-> r.ret,
                        prev_phys |->
                            IF /\ hat_last.op = "map" /\ hat_last.ret = Ok
                               /\ hat_last.hat = h /\ hat_last.virt = virt
                               /\ hat_last.size = size
                               /\ hat_last.page_size = page_size
                               /\ hat_last.prot = prot
                              THEN hat_last.phys ELSE None,
                        asid |-> 0]
    /\ hat_calls' = hat_calls + 1
    /\ UNCHANGED <<cpu_features, mmu_info, initial_ptes>>
    /\ UNCHANGED <<pmmVars, smpVars, sysVars>>

\* hats[h].unmap_pages(virt, size, page_size)
UnmapPagesAt(virts) ==
    /\ hat_pc = "ready" /\ hat_calls < MaxHatCalls
    /\ \E h \in DOMAIN hats, virt \in virts, page_size \in PageSizes,
          np \in {1, 2} :
          /\ np <= PAGE_SIZE_1G \div mmu_info.page_size[page_size + 1]
          /\ LET size == np * mmu_info.page_size[page_size + 1]
             IN  \E r \in { unmap_pages(pt, mmu_info, hats[h], virt, size, page_size) } :
                 /\ pt' = r.pt
                 /\ hat_pc' = IF r.ret.kind = "panic" THEN "panic" ELSE "ready"
                 /\ hat_last' =
                       [op |-> "unmap", hat |-> h, virt |-> virt, phys |-> 0,
                        size |-> size, page_size |-> page_size, prot |-> 0,
                        changed |-> Changed(pt, r.pt), pre_nt |-> nt, ret |-> r.ret,
                        prev_phys |-> None, asid |-> 0]
    /\ hat_calls' = hat_calls + 1
    /\ UNCHANGED <<cpu_features, mmu_info, initial_ptes, nt, hats>>
    /\ UNCHANGED <<pmmVars, smpVars, sysVars>>

\* the address-space ids new Hats are made for
Asids == { 0, 2, 4095, 4096 + 5 }

\* Hat::new(asid)
HatNewAt(asids) ==
    /\ hat_pc = "ready" /\ hat_calls < MaxHatCalls
    /\ \E asid \in asids :
          \E r \in { Hat_new(pt, nt, mmu_info, initial_ptes, asid) } :
             /\ pt' = r.pt
             /\ nt' = r.nt
             /\ hats' = Append(hats, r.hat)
             /\ hat_last' = [NoHatCall EXCEPT !.op = "new", !.hat = Len(hats) + 1,
                                              !.changed = Changed(pt, r.pt),
                                              !.pre_nt = nt, !.asid = asid]
    /\ hat_calls' = hat_calls + 1
    /\ UNCHANGED <<cpu_features, mmu_info, initial_ptes, hat_pc>>
    /\ UNCHANGED <<pmmVars, smpVars, sysVars>>

MapPagesCall == MapPagesAt(MapVirts, MapProts, TRUE)

UnmapPagesCall == UnmapPagesAt(MapVirts)

HatNewCall == HatNewAt(Asids)

\* calls on the kernel half made through any of several Hats
SharedMapCall == MapPagesAt({KernelBase}, {Prot_READ + Prot_WRITE}, FALSE)
SharedUnmapCall == UnmapPagesAt({KernelBase})
SharedNewCall == HatNewAt({2})

SharedNext == HatInitCall \/ SharedNewCall \/ SharedMapCall \/ SharedUnmapCall

SpecShared == HatBoot /\ [][SharedNext]_vars

\* map_pages over ranges that cross a table boundary
CrossMapCall == MapPagesAt(CrossVirts, {Prot_READ + Prot_WRITE}, FALSE)

HatNext == HatInitCall \/ MapPagesCall

CrossNext == HatInitCall \/ CrossMapCall

SpecCross == HatBoot /\ [][CrossNext]_vars

\* mapping and unmapping
UnmapNext == HatInitCall \/ MapPagesCall \/ UnmapPagesCall

SpecUnmap == HatBoot /\ [][UnmapNext]_vars

\* making Hats
HatNewNext == HatInitCall \/ HatNewCall

SpecHatNew == HatBoot /\ [][HatNewNext]_vars

SpecHat == HatBoot /\ [][HatNext]_vars

(***************************************************************************)
(* trap::init on every CPU: the run_once! block that builds the IDT, then  *)
(* the load of the IDTR                                                    *)
(***************************************************************************)
IdtBoot ==
    /\ physmap = LinkedListPmm_new
    /\ pmm_last = NoCall
    /\ pmm_panic = FALSE
    /\ SmpIdle
    /\ HatIdle
    /\ \E t \in StubTables : trap_stubs = [v \in Vectors |-> StubAddress(t, v)]
    /\ idt = NoDescriptors
    /\ run_state = NOT_RUN
    /\ trap_cpu = [c \in CPUs |-> IdleTrapCpu]
    /\ idt_runs = <<>>
    /\ TrapIdle
    /\ ScopeIdle
    /\ BootIdle
    /\ PanicIdle
    /\ FallocIdle
    /\ PcpuIdle

\* the arms of the match on the result of the compare-and-swap: where the CPU
\* goes next
RunOnceArm_noWait(r) ==
    CASE r.ok -> "critical"
      [] ~r.ok /\ r.seen \in {RUNNING, HAS_RUN} -> "done"
      [] OTHER -> "unreachable"

RunOnceArm(r) ==
    CASE r.ok -> "critical"
      [] ~r.ok /\ r.seen = RUNNING -> "entry"
      [] ~r.ok /\ r.seen = HAS_RUN -> "done"
      [] OTHER -> "unreachable"

\* one turn of the loop of run_once!: the compare-and-swap and its match
RunOnceCas(c) ==
    /\ trap_cpu[c].pc = "entry"
    /\ \E r \in { CompareExchange(run_state, NOT_RUN, RUNNING) } :
        /\ run_state' = r.val
        /\ trap_cpu' = [trap_cpu EXCEPT ![c] =
              [@ EXCEPT !.pc = RunOnceArm(r),
                        !.spun = @ \/ (~r.ok /\ r.seen = RUNNING)]]
    /\ UNCHANGED <<trap_stubs, idt, idt_runs>>
    /\ UNCHANGED notIdt

\* the critical section: the loop over the 256 vectors
BuildDescriptors(c) ==
    /\ trap_cpu[c].pc = "critical"
    /\ trap_cpu' = [trap_cpu EXCEPT ![c] =
          [@ EXCEPT !.pc = "copy",
                    !.descriptors = [v \in Vectors |-> GateDescriptor(v, trap_stubs[v])]]]
    /\ UNCHANGED <<trap_stubs, idt, run_state, idt_runs>>
    /\ UNCHANGED notIdt

\* the critical section: IDT.lock().descriptors.copy_from_slice(&descriptors)
CopyDescriptors(c) ==
    /\ trap_cpu[c].pc = "copy"
    /\ idt' = trap_cpu[c].descriptors
    /\ idt_runs' = Append(idt_runs, c)
    /\ trap_cpu' = [trap_cpu EXCEPT ![c].pc = "store"]
    /\ UNCHANGED <<trap_stubs, run_state>>
    /\ UNCHANGED notIdt

\* RUN_STATE.store(HAS_RUN) and the break
StoreHasRun(c) ==
    /\ trap_cpu[c].pc = "store"
    /\ run_state' = HAS_RUN
    /\ trap_cpu' = [trap_cpu EXCEPT ![c].pc = "done"]
    /\ UNCHANGED <<trap_stubs, idt, idt_runs>>
    /\ UNCHANGED notIdt

\* the rest of trap::init: lidt makes the CPU use the IDT
LoadIdtr(c) ==
    /\ trap_cpu[c].pc = "done"
    /\ trap_cpu' = [trap_cpu EXCEPT ![c].pc = "loaded"]
    /\ UNCHANGED <<trap_stubs, idt, run_state, idt_runs>>
    /\ UNCHANGED notIdt

IdtNext ==
    \E c \in CPUs :
        \/ RunOnceCas(c)
        \/ BuildDescriptors(c)
        \/ CopyDescriptors(c)
        \/ StoreHasRun(c)
        \/ LoadIdtr(c)

SpecIdt == IdtBoot /\ [][IdtNext]_vars

(***************************************************************************)
(* run_once! with compare_exchange_weak as the language defines it: the    *)
(* operation may fail although the value read equals the expected one, and *)
(* then returns Err with that value.  (On x86_64 it is a lock cmpxchg,     *)
(* which does not; SpecIdt is that build.)  The CPUs are scheduled fairly. *)
(***************************************************************************)
\* the outcomes of AtomicU32::compare_exchange_weak
compare_exchange_weak(cur, expected, new) ==
    { CompareExchange(cur, expected, new), [ok |-> FALSE, seen |-> cur, val |-> cur] }

\* one turn of the loop of run_once!
RunOnceCasWeak(c) ==
    /\ trap_cpu[c].pc = "entry"
    /\ \E r \in compare_exchange_weak(run_state, NOT_RUN, RUNNING) :
        /\ run_state' = r.val
        /\ trap_cpu' = [trap_cpu EXCEPT ![c] =
              [@ EXCEPT !.pc = RunOnceArm(r),
                        !.spun = @ \/ (~r.ok /\ r.seen = RUNNING)]]
    /\ UNCHANGED <<trap_stubs, idt, idt_runs>>
    /\ UNCHANGED notIdt

OnceStep(c) ==
    \/ RunOnceCasWeak(c)
    \/ BuildDescriptors(c)
    \/ CopyDescriptors(c)
    \/ StoreHasRun(c)
    \/ LoadIdtr(c)

OnceNext == \E c \in CPUs : OnceStep(c)

SpecOnce == IdtBoot /\ [][OnceNext]_vars /\ \A c \in CPUs : WF_vars(OnceStep(c))

\* the x86_64 build, scheduled fairly
IdtStep(c) ==
    \/ RunOnceCas(c)
    \/ BuildDescriptors(c)
    \/ CopyDescriptors(c)
    \/ StoreHasRun(c)
    \/ LoadIdtr(c)

SpecIdtFair == SpecIdt /\ \A c \in CPUs : WF_vars(IdtStep(c))

(***************************************************************************)
(* A trap taken by the kernel                                              *)
(***************************************************************************)
TrapBoot ==
    /\ physmap = LinkedListPmm_new
    /\ pmm_last = NoCall
    /\ pmm_panic = FALSE
    /\ SmpIdle
    /\ HatIdle
    /\ IdtIdle
    /\ trap_last = NoTrap
    /\ ScopeIdle
    /\ BootIdle
    /\ PanicIdle
    /\ FallocIdle
    /\ PcpuIdle

\* dispatch; the kernel halts in the panic handler afterwards
DispatchCall ==
    /\ trap_last = NoTrap
    /\ \E tf \in X86Frames \cup RiscvFrames :
          trap_last' = [tf |-> tf, end |-> dispatch(tf)]
    /\ UNCHANGED notTrap

TrapNext == DispatchCall

SpecTrap == TrapBoot /\ [][TrapNext]_vars

(***************************************************************************)
(* trap_common and catch_sysenter (x86_64)                                 *)
(* The stub compares the low byte of tf.info with 6 and calls              *)
(* catch_sysenter for such a frame before it calls dispatch.               *)
(***************************************************************************)
T_SYSENTER_UD == 257
SYSENTER_OPCODE == 13327

\* the addresses a faulting rip may have in the model (0 is the null rip),
\* and the bytes found there: 0f 34 is sysenter, 0f 05 is syscall
CodeAddrs == { 0, 17 }
CodeBytes == { 5, 15, 52 }
CodeMemories == [ UNION { {a, a + 1} : a \in CodeAddrs } -> CodeBytes ]

\* the frames trap_common is entered with: info is the vector; rax stands
\* for the registers catch_sysenter never names
SysenterFrames ==
    [arch : {"x86_64"}, info : {6, 13, 14}, error : {0}, rip : CodeAddrs,
     cs : {43}, rflags : {514}, rsp : {4096}, ss : {35}, rcx : {0, 8192},
     r11 : {12288}, rax : {7}]

\* two bytes read as a big-endian number
read_unaligned_u16_be(mem, addr) == 256 * mem[addr] + mem[addr + 1]

\* ptr::read_unaligned(addr as *const u16): the two bytes, little-endian
read_unaligned_u16(mem, addr) == mem[addr] + 256 * mem[addr + 1]

\* catch_sysenter(tf)
catch_sysenter(tf, mem) ==
    IF tf.rip = 0 THEN tf
    ELSE IF read_unaligned_u16(mem, tf.rip) = SYSENTER_OPCODE
      THEN [tf EXCEPT !.rip = tf.rcx, !.rsp = tf.r11, !.info = T_SYSENTER_UD]
      ELSE tf

\* cmp byte ptr [r15 + tf_info], 6
IsInvalidOpcode(tf) == tf.info % 256 = 6

\* RFLAGS after the with_userspace_access around the read has returned
AfterUaccess(smap, bits) ==
    Uaccess_exit(Uaccess_enter(smap, bits).status, Uaccess_enter(smap, bits).saved).status

SysenterBoot ==
    /\ physmap = LinkedListPmm_new
    /\ pmm_last = NoCall
    /\ pmm_panic = FALSE
    /\ SmpIdle
    /\ HatIdle
    /\ IdtIdle
    /\ trap_last = NoTrap
    /\ arch = "x86_64"
    /\ status \in { {1}, {1} \cup Rflags_AC }
    /\ smap_enabled \in BOOLEAN
    /\ scopes = <<>>
    /\ scope_last = NoScopeStep
    /\ BootIdle
    /\ PanicIdle
    /\ FallocIdle
    /\ PcpuIdle

\* trap_common from the saved registers to the call of dispatch; the kernel
\* halts in the panic handler afterwards
TrapCommonCall ==
    /\ trap_last = NoTrap
    /\ \E tf \in SysenterFrames, mem \in CodeMemories :
         LET caught == IsInvalidOpcode(tf)
             tf1    == IF caught THEN catch_sysenter(tf, mem) ELSE tf
         IN  /\ trap_last' = [tf |-> tf1, end |-> dispatch(tf1), pre |-> tf,
                               mem |-> mem, caught |-> caught]
             /\ status' = IF caught /\ tf.rip # 0
                             THEN AfterUaccess(smap_enabled, status) ELSE status
    /\ UNCHANGED <<arch, smap_enabled, scopes, scope_last>>
    /\ UNCHANGED <<pmmVars, smpVars, hatVars, idtVars, bootVars, panicVars, fallocVars,
                   pcpuVars>>

SysenterNext == TrapCommonCall

SpecSysenter == SysenterBoot /\ [][SysenterNext]_vars

(***************************************************************************)
(* One CPU entering and leaving nested scopes                              *)
(***************************************************************************)
ScopeBoot ==
    /\ physmap = LinkedListPmm_new
    /\ pmm_last = NoCall
    /\ pmm_panic = FALSE
    /\ SmpIdle
    /\ HatIdle
    /\ IdtIdle
    /\ TrapIdle
    /\ arch \in {"x86_64", "riscv64"}
    /\ status \in StatusValues(arch)
    /\ smap_enabled \in (IF arch = "x86_64" THEN BOOLEAN ELSE {FALSE})
    /\ scopes = <<>>
    /\ scope_last = NoScopeStep
    /\ BootIdle
    /\ PanicIdle
    /\ FallocIdle
    /\ PcpuIdle

\* without_interrupts is called, by the kernel or by the body of a scope
NoIntEnter ==
    /\ Len(scopes) < MaxDepth
    /\ \E r \in { NoInt_enter(arch, status) } :
        /\ status' = r.status
        /\ scopes' = Append(scopes, [kind |-> "noint", saved |-> r.saved,
                                      entry |-> status])
        /\ scope_last' = [op |-> "enter", kind |-> "noint", insns |-> r.insns,
                          entry |-> status]
    /\ UNCHANGED <<arch, smap_enabled>>
    /\ UNCHANGED notScope

\* the body of the innermost without_interrupts returns
NoIntExit ==
    /\ scopes # <<>>
    /\ scopes[Len(scopes)].kind = "noint"
    /\ \E r \in { NoInt_exit(arch, status, scopes[Len(scopes)].saved) } :
        /\ status' = r.status
        /\ scope_last' = [op |-> "exit", kind |-> "noint", insns |-> r.insns,
                          entry |-> scopes[Len(scopes)].entry]
    /\ scopes' = SubSeq(scopes, 1, Len(scopes) - 1)
    /\ UNCHANGED <<arch, smap_enabled>>
    /\ UNCHANGED notScope

\* with_userspace_access is called
UaccessEnter ==
    /\ arch = "x86_64"
    /\ Len(scopes) < MaxDepth
    /\ \E r \in { Uaccess_enter(smap_enabled, status) } :
        /\ status' = r.status
        /\ scopes' = Append(scopes, [kind |-> "uaccess", saved |-> r.saved,
                                      entry |-> status])
        /\ scope_last' = [op |-> "enter", kind |-> "uaccess", insns |-> r.insns,
                          entry |-> status]
    /\ UNCHANGED <<arch, smap_enabled>>
    /\ UNCHANGED notScope

\* the body of the innermost with_userspace_access returns
UaccessExit ==
    /\ scopes # <<>>
    /\ scopes[Len(scopes)].kind = "uaccess"
    /\ \E r \in { Uaccess_exit(status, scopes[Len(scopes)].saved) } :
        /\ status' = r.status
        /\ scope_last' = [op |-> "exit", kind |-> "uaccess", insns |-> r.insns,
                          entry |-> scopes[Len(scopes)].entry]
    /\ scopes' = SubSeq(scopes, 1, Len(scopes) - 1)
    /\ UNCHANGED <<arch, smap_enabled>>
    /\ UNCHANGED notScope

ScopeNext == NoIntEnter \/ NoIntExit \/ UaccessEnter \/ UaccessExit

\* with_userspace_access of arch/riscv is called: trap::with_userspace_access
\* or vm::with_userspace_access
RvUaccessEnter ==
    /\ arch = "riscv64"
    /\ Len(scopes) < MaxDepth
    /\ \E variant \in {"trap", "vm"} :
         \E r \in { RvUaccess_enter(variant, status) } :
            /\ status' = r.status
            /\ scopes' = Append(scopes, [kind |-> "rv_uaccess", saved |-> r.saved,
                                          entry |-> status, variant |-> variant,
                                          prev_sstatus |-> r.prev_sstatus])
            /\ scope_last' = [op |-> "enter", kind |-> "rv_uaccess", insns |-> r.insns,
                              entry |-> status]
    /\ UNCHANGED <<arch, smap_enabled>>
    /\ UNCHANGED notScope

\* the body of the innermost with_userspace_access of arch/riscv returns
RvUaccessExit ==
    /\ scopes # <<>>
    /\ scopes[Len(scopes)].kind = "rv_uaccess"
    /\ \E r \in { RvUaccess_exit(scopes[Len(scopes)].variant, status,
                                  scopes[Len(scopes)].prev_sstatus,
                                  scopes[Len(scopes)].saved) } :
        /\ status' = r.status
        /\ scope_last' = [op |-> "exit", kind |-> "rv_uaccess", insns |-> r.insns,
                          entry |-> scopes[Len(scopes)].entry]
    /\ scopes' = SubSeq(scopes, 1, Len(scopes) - 1)
    /\ UNCHANGED <<arch, smap_enabled>>
    /\ UNCHANGED notScope

RvScopeNext == ScopeNext \/ RvUaccessEnter \/ RvUaccessExit

SpecRvScope == ScopeBoot /\ [][RvScopeNext]_vars

SpecScope == ScopeBoot /\ [][ScopeNext]_vars

(***************************************************************************)
(* The boot CPU running the entry function                                 *)
(***************************************************************************)
BootInit ==
    /\ physmap = LinkedListPmm_new
    /\ pmm_last = NoCall
    /\ pmm_panic = FALSE
    /\ SmpIdle
    /\ HatIdle
    /\ IdtIdle
    /\ TrapIdle
    /\ ScopeIdle
    /\ HHDM_BASE = VirtAddr(0, 0, 0)
    /\ \E a \in {"x86_64", "riscv64"} : \E h \in HhdmBases : \E m \in MemoryMaps(a) :
          boot = [arch |-> a, hhdm |-> h, memmap |-> m, pc |-> 1, freed |-> 0]
    /\ hhdm_log = <<>>
    /\ PanicIdle
    /\ FallocIdle
    /\ PcpuIdle

BootAt(call) ==
    /\ boot.pc \in DOMAIN BootProgram(boot.arch)
    /\ BootProgram(boot.arch)[boot.pc] = call

\* a call that touches neither the PMM nor the HHDM base
BootPlain ==
    /\ \E call \in {"cpu::early_init", "logger::init", "requests", "println", "csrc",
                      "cpu::init"} : BootAt(call)
    /\ boot' = [boot EXCEPT !.pc = @ + 1]
    /\ UNCHANGED <<HHDM_BASE, hhdm_log>>
    /\ UNCHANGED notBoot

\* bolt::vm::set_hhdm(VirtAddr::new(hhdm_base))
SetHhdm ==
    /\ BootAt("set_hhdm")
    /\ HHDM_BASE' = boot.hhdm
    /\ hhdm_log' = Append(hhdm_log, [ev |-> "write", base |-> boot.hhdm])
    /\ boot' = [boot EXCEPT !.pc = @ + 1]
    /\ UNCHANGED notBoot

\* one turn of the loop over the memory map
BootFreeFrames ==
    /\ BootAt("free_frames")
    /\ IF boot.memmap = <<>>
       THEN /\ boot' = [boot EXCEPT !.pc = @ + 1]
            /\ UNCHANGED hhdm_log
       ELSE /\ boot' = [boot EXCEPT !.memmap = Tail(@),
                                     !.freed = IF Head(boot.memmap) THEN @ + 1 ELSE @]
            /\ hhdm_log' = IF Head(boot.memmap)
                              THEN hhdm_log \o FreeFramesEvents(HHDM_BASE)
                              ELSE hhdm_log
    /\ UNCHANGED HHDM_BASE
    /\ UNCHANGED notBoot

\* the copy of the kernel file: the heap takes its frames from the PMM and
\* the allocation fails (the kernel panics) when the PMM is empty
BootToVec ==
    /\ BootAt("to_vec")
    /\ hhdm_log' = hhdm_log \o AllocFramesEvents(HHDM_BASE, boot.freed > 0)
    /\ boot' = [boot EXCEPT !.pc = IF boot.freed > 0 THEN @ + 1 ELSE 0]
    /\ UNCHANGED HHDM_BASE
    /\ UNCHANGED notBoot

\* trap::init: on x86_64 it allocates the interrupt stacks
BootTrapInit ==
    /\ BootAt("trap::init")
    /\ hhdm_log' = IF boot.arch = "x86_64"
                      THEN hhdm_log \o Repeat(AllocFramesEvents(HHDM_BASE, TRUE),
                                              Cardinality(IstsInUse))
                      ELSE hhdm_log
    /\ boot' = [boot EXCEPT !.pc = @ + 1]
    /\ UNCHANGED HHDM_BASE
    /\ UNCHANGED notBoot

\* the read of 0xcafebabecafebabe at the end of trap::init: the kernel traps
BootFault ==
    /\ BootAt("fault")
    /\ boot' = [boot EXCEPT !.pc = 0]
    /\ UNCHANGED <<HHDM_BASE, hhdm_log>>
    /\ UNCHANGED notBoot

BootNext ==
    BootPlain \/ SetHhdm \/ BootFreeFrames \/ BootToVec \/ BootTrapInit \/ BootFault

SpecBoot == BootInit /\ [][BootNext]_vars

(***************************************************************************)
(* Panics on several CPUs, nested and concurrent                           *)
(***************************************************************************)
PanicInit ==
    /\ physmap = LinkedListPmm_new
    /\ pmm_last = NoCall
    /\ pmm_panic = FALSE
    /\ SmpIdle
    /\ HatIdle
    /\ IdtIdle
    /\ TrapIdle
    /\ ScopeIdle
    /\ BootIdle
    /\ FallocIdle
    /\ PcpuIdle
    /\ IN_PANIC = FALSE
    /\ writer = 0
    /\ panics = [c \in CPUs |-> <<>>]
    /\ rflags \in [CPUs -> { {1}, {1} \cup Rflags_IF }]
    /\ panic_swaps = <<>>
    /\ panic_traces = <<>>

Top(c) == panics[c][Len(panics[c])]

PanicsStarted ==
    LET RECURSIVE Sum(_)
        Sum(S) == IF S = {} THEN 0
                  ELSE LET c == CHOOSE x \in S : TRUE IN Len(panics[c]) + Sum(S \ {c})
    IN  Sum(CPUs)

\* the kernel panics on CPU c: in kernel code, or inside rust_panic where it
\* does not hold WRITER (a fault while get_backtrace walks the frames, a
\* failed allocation of the backtrace, a trap taken between the prints)
PanicStart(c) ==
    /\ PanicsStarted < MaxPanics
    /\ panics[c] # <<>> => Top(c).pc \in PanicPrints \cup {"swap", "get_backtrace"}
    /\ panics' = [panics EXCEPT ![c] = Append(@, PanicFrame(<<c, Len(@) + 1>>, FALSE))]
    /\ UNCHANGED <<IN_PANIC, writer, rflags, panic_swaps, panic_traces, lock>>
    /\ UNCHANGED notPanic

\* an assertion of the PMM fails on CPU c: free_frames has taken PHYSMAP and
\* insert_region panics under the guard, which is never dropped
PanicInPmm(c) ==
    /\ PanicsStarted < MaxPanics
    /\ panics[c] = <<>>
    /\ lock = FALSE
    /\ lock' = TRUE
    /\ panics' = [panics EXCEPT ![c] = Append(@, PanicFrame(<<c, Len(@) + 1>>, TRUE))]
    /\ UNCHANGED <<IN_PANIC, writer, rflags, panic_swaps, panic_traces>>
    /\ UNCHANGED notPanic

\* __print: without_interrupts, then WRITER.lock() once the lock is free
PrintLock(c) ==
    /\ panics[c] # <<>>
    /\ Top(c).pc \in PanicPrints
    /\ writer = 0
    /\ writer' = c
    /\ rflags' = [rflags EXCEPT ![c] = push_cli(@).status]
    /\ panics' = [panics EXCEPT ![c][Len(panics[c])] =
                      [@ EXCEPT !.pc = "printing " \o Top(c).pc,
                                !.saved = push_cli(rflags[c]).ret]]
    /\ UNCHANGED <<IN_PANIC, panic_swaps, panic_traces, lock>>
    /\ UNCHANGED notPanic

\* __print: the text is written, the guard is dropped, the interrupts are
\* restored
PrintUnlock(c) ==
    /\ panics[c] # <<>>
    /\ \E pc \in PanicPrints :
        /\ Top(c).pc = "printing " \o pc
        /\ panics' = [panics EXCEPT ![c][Len(panics[c])] =
                          [@ EXCEPT !.pc = AfterPrint(pc)]]
    /\ writer' = 0
    /\ rflags' = [rflags EXCEPT ![c] = IF Top(c).saved THEN sti(@) ELSE @]
    /\ UNCHANGED <<IN_PANIC, panic_swaps, panic_traces, lock>>
    /\ UNCHANGED notPanic

\* if !IN_PANIC.swap(true) { trace_stack() } else { log::error!(..) }
PanicSwap(c) ==
    /\ panics[c] # <<>>
    /\ Top(c).pc = "swap"
    /\ \E r \in { AtomicSwap(IN_PANIC, TRUE) } :
        /\ IN_PANIC' = r.flag
        /\ panics' = [panics EXCEPT ![c][Len(panics[c])] =
                          [@ EXCEPT !.pc = IF ~r.ret THEN "trace_stack" ELSE "log::error"]]
        /\ panic_traces' = IF ~r.ret THEN Append(panic_traces, Top(c).id)
                            ELSE panic_traces
    /\ panic_swaps' = Append(panic_swaps, Top(c).id)
    /\ UNCHANGED <<writer, rflags, lock>>
    /\ UNCHANGED notPanic

\* get_backtrace: the first push onto the Vec takes a frame from the PMM, and
\* alloc_frames takes PHYSMAP once the lock is free
PanicBacktrace(c) ==
    /\ panics[c] # <<>>
    /\ Top(c).pc = "get_backtrace"
    /\ lock = FALSE
    /\ panics' = [panics EXCEPT ![c][Len(panics[c])] = [@ EXCEPT !.pc = "trace lines"]]
    /\ UNCHANGED <<IN_PANIC, writer, rflags, panic_swaps, panic_traces, lock>>
    /\ UNCHANGED notPanic

\* hcf: trap::disable(), then the loop
PanicHcf(c) ==
    /\ panics[c] # <<>>
    /\ Top(c).pc = "hcf"
    /\ rflags' = [rflags EXCEPT ![c] = cli(@)]
    /\ panics' = [panics EXCEPT ![c][Len(panics[c])] = [@ EXCEPT !.pc = "loop"]]
    /\ UNCHANGED <<IN_PANIC, writer, panic_swaps, panic_traces, lock>>
    /\ UNCHANGED notPanic

PanicStep(c) ==
    PrintLock(c) \/ PrintUnlock(c) \/ PanicSwap(c) \/ PanicBacktrace(c) \/ PanicHcf(c)

PanicNext == \E c \in CPUs : PanicStart(c) \/ PanicInPmm(c) \/ PanicStep(c)

\* a CPU that is not spinning on WRITER executes its next instruction
SpecPanic == PanicInit /\ [][PanicNext]_vars /\ \A c \in CPUs : WF_vars(PanicStep(c))

(***************************************************************************)
(* Traps taken by a CPU that is in the PMM                                 *)
(* alloc_frames and free_frames take PHYSMAP.lock() (a spin::SpinMutex,    *)
(* which leaves the interrupt flag alone) with RFLAGS as the caller has    *)
(* it.  The kernel is entered with IF clear and sets it nowhere before it  *)
(* returns to user mode.  A trap stub calls dispatch, which ends in        *)
(* panic! or todo!, so the handler goes through rust_panic and does not    *)
(* return to the code it interrupted.                                      *)
(***************************************************************************)
\* the non-maskable interrupt and the first external interrupt
TrapVectors == { Vector_NON_MASKABLE_INTERRUPT, 32 }

\* vectors 0 .. 31 are the exceptions and the NMI, which RFLAGS.IF does not mask
Maskable(v) == v >= 32

\* CPU c is between PHYSMAP.lock() and the drop of the guard
HoldsPhysmap(c) == cpu[c].pc \in {"locked", "walked"}

\* vector v is delivered to CPU c: the interrupt gate clears IF, the stub
\* calls dispatch, dispatch panics
TrapTake(c) ==
    /\ PanicsStarted < MaxPanics
    /\ panics[c] = <<>>
    /\ \E v \in TrapVectors :
          Maskable(v) => Rflags_contains(rflags[c], Rflags_IF)
    /\ rflags' = [rflags EXCEPT ![c] = cli(@)]
    /\ panics' = [panics EXCEPT ![c] = <<PanicFrame(<<c, 1>>, HoldsPhysmap(c))>>]
    /\ UNCHANGED <<IN_PANIC, writer, panic_swaps, panic_traces, lock>>
    /\ UNCHANGED notPanic

\* a CPU that has taken no trap goes on with its PMM call
PmmStep(c) ==
    /\ panics[c] = <<>>
    /\ \/ CpuCallAlloc(c)
       \/ CpuCallFree(c)
       \/ CpuLock(c)
       \/ CpuWalk(c)
       \/ CpuCommit(c)

PmmTrapNext == \E c \in CPUs : PmmStep(c) \/ TrapTake(c) \/ PanicStep(c)

SpecPmmTrap == SmpInit /\ [][PmmTrapNext]_vars

(***************************************************************************)
(* FrameAllocator: core::alloc::Allocator over the PMM                     *)
(* allocate takes pages_for!(size) frames from alloc_frames, zeroes        *)
(* layout.size() bytes through the HHDM and returns the HHDM pointer;      *)
(* deallocate translates the pointer back and gives pages_for!(size)       *)
(* frames to free_frames.                                                  *)
(***************************************************************************)
\* allocations that may be outstanding at once
MaxHeld == 2

\* pages_for!(size)
pages_for(size) == (size + PAGE_SIZE - 1) \div PAGE_SIZE

\* the layouts that pass the debug assertions of allocate: align PAGE_SIZE,
\* size a multiple of PAGE_SIZE
LayoutSizes == { PAGE_SIZE * n : n \in 0 .. MaxLen }

\* usize subtraction v - w on the limbs
va_sub(v, w) ==
    LET lo  == v.lo - w.lo
        mid == v.mid - w.mid - (IF lo < 0 THEN 1 ELSE 0)
        top == v.top - w.top - (IF mid < 0 THEN 1 ELSE 0)
    IN  VirtAddr((top + LimbTop) % LimbTop, (mid + LimbMid) % LimbMid,
                 (lo + LimbLo) % LimbLo)

\* a usize as a physical address of the modelled memory (below 2^30), None
\* for a value beyond it
PhysAddr_of(v) == IF v.top = 0 /\ v.mid = 0 THEN v.lo ELSE None

\* PhysAddr::to_virtual: VirtAddr(HHDM_BASE.0 + self.0)
to_virtual(hhdm, phys) == va_add(hhdm, phys)

\* a translation that forgets the base
to_physical_noBase(hhdm, v) == PhysAddr_of(v)

\* VirtAddr::to_physical: PhysAddr(self.0 - HHDM_BASE.0)
to_physical(hhdm, v) == PhysAddr_of(va_sub(v, hhdm))

\* ptr.write_bytes(0, size) at the HHDM alias of phys: the frames it fills
write_bytes(z, phys, size) == z \cup RangeFrames(phys, size \div PAGE_SIZE)

\* FrameAllocator::allocate(layout)
FrameAllocator_allocate(pm, hhdm, z, size) ==
    LET r == alloc_frames(pm, pages_for(size))
    IN  IF r.ret = None
          THEN [pm |-> r.pm, zeroed |-> z, ok |-> FALSE, phys |-> None,
                ptr |-> VirtAddr(0, 0, 0), len |-> 0]
          ELSE [pm |-> r.pm, zeroed |-> write_bytes(z, r.ret, size), ok |-> TRUE,
                phys |-> r.ret, ptr |-> to_virtual(hhdm, r.ret), len |-> size]

\* FrameAllocator::deallocate(ptr, layout)
FrameAllocator_deallocate(pm, hhdm, ptr, size) ==
    free_frames(pm, to_physical(hhdm, ptr), pages_for(size))

\* the memory seeded at boot: frames 1 .. MaxFrame-1 in one run
FallocInit ==
    /\ physmap = free_frames(LinkedListPmm_new, PAGE_SIZE, MaxFrame - 1).pm
    /\ pmm_last = NoCall
    /\ pmm_panic = FALSE
    /\ SmpIdle
    /\ HatIdle
    /\ IdtIdle
    /\ TrapIdle
    /\ ScopeIdle
    /\ PanicIdle
    /\ HHDM_BASE \in HhdmBases
    /\ boot = [arch |-> "x86_64", hhdm |-> HHDM_BASE, memmap |-> <<>>,
               pc |-> 1, freed |-> 0]
    /\ hhdm_log = <<>>
    /\ FallocIdle
    /\ PcpuIdle

notFalloc == <<pmm_last, smpVars, hatVars, idtVars, trapVars, scopeVars, bootVars,
               panicVars, pcpuVars>>

AllocateCall ==
    /\ ~pmm_panic
    /\ Cardinality(held) < MaxHeld
    /\ \E size \in LayoutSizes :
         \E r \in { FrameAllocator_allocate(physmap, HHDM_BASE, zeroed, size) } :
            /\ physmap' = r.pm
            /\ zeroed' = r.zeroed
            /\ held' = IF r.ok THEN held \cup {[ptr |-> r.ptr, len |-> r.len]} ELSE held
            /\ falloc_last' = [op |-> "allocate", size |-> size, pre |-> physmap,
                               ok |-> r.ok, phys |-> r.phys, ptr |-> r.ptr,
                               len |-> r.len, direct |-> FALSE]
    /\ UNCHANGED pmm_panic
    /\ UNCHANGED notFalloc

\* the bytes of a frame that is back in the list are not state
DeallocateCall ==
    /\ ~pmm_panic
    /\ \E h \in held :
         \E r \in { FrameAllocator_deallocate(physmap, HHDM_BASE, h.ptr, h.len) } :
            /\ physmap' = r.pm
            /\ pmm_panic' = r.panic
            /\ zeroed' = zeroed \ RangeFrames(to_physical(HHDM_BASE, h.ptr),
                                              pages_for(h.len))
            /\ held' = held \ {h}
            /\ LET direct == /\ falloc_last.op = "allocate" /\ falloc_last.ok
                             /\ falloc_last.ptr = h.ptr /\ falloc_last.len = h.len
               IN  falloc_last' = [op |-> "deallocate", size |-> h.len,
                                   pre |-> IF direct THEN falloc_last.pre ELSE physmap,
                                   ok |-> ~r.panic,
                                   phys |-> to_physical(HHDM_BASE, h.ptr),
                                   ptr |-> h.ptr, len |-> h.len, direct |-> direct]
    /\ UNCHANGED notFalloc

FallocNext == AllocateCall \/ DeallocateCall

SpecFalloc == FallocInit /\ [][FallocNext]_vars

(***************************************************************************)
(* The syscall fast path (arch/x86_64/src/trap.rs, trap_syscall) up to     *)
(* the call of dispatch.  A machine is the registers of one CPU, the two   *)
(* GS bases, the CoreLocalSegment of the CPU and the memory written so     *)
(* far; machine words are numbers, stack addresses are 64-bit and kept on  *)
(* limbs.                                                                   *)
(***************************************************************************)
T_SYSCALL == 258
Selector_UCODE == 40
Selector_UDATA == 48

Rflags_TF == { 8 }
Rflags_DF == { 10 }

\* cpu.rs: TRAP_FMASK = DF | IF | TF | AC
TRAP_FMASK == Rflags_DF \cup Rflags_IF \cup Rflags_TF \cup Rflags_AC

\* the fields of TrapFrame in the order of the repr(C) struct
TrapFrameFields ==
    <<"rdi", "rsi", "rdx", "r10", "r8", "r9", "rax", "rbx", "rcx", "rbp",
      "r11", "r12", "r13", "r14", "r15",
      "info", "error", "rip", "cs", "rflags", "rsp", "ss">>

\* the registers push_registers stores, slot 0 first
PushedRegisters == SubSeq(TrapFrameFields, 1, 15)

Gprs == { TrapFrameFields[i] : i \in 1 .. 15 }

\* the CoreLocalSegment as early_init leaves it: the Pcpu storage is
\* zero-filled and only pcpu_ptr is assigned
CoreLocalSegment_new == [kstackp |-> VirtAddr(0, 0, 0), ustackp |-> VirtAddr(0, 0, 0)]

\* unsigned comparison of two 64-bit values
va_lt(a, b) ==
    \/ a.top < b.top
    \/ a.top = b.top /\ a.mid < b.mid
    \/ a.top = b.top /\ a.mid = b.mid /\ a.lo < b.lo

\* the syscall instruction as IA32_LSTAR and IA32_FMASK are programmed by
\* trap::init: rcx = rip, r11 = rflags, rflags &= ~FMASK
syscall_insn(m) ==
    [m EXCEPT !.regs = [m.regs EXCEPT !["rcx"] = m.rip, !["r11"] = m.rflags],
              !.rflags = BitsValue(Bits(m.rflags) \ TRAP_FMASK),
              !.rip = "trap_syscall"]

\* swapgs
swapgs(m) == [m EXCEPT !.gs_base = m.kernel_gs_base, !.kernel_gs_base = m.gs_base]

\* push v
push(m, v) ==
    LET sp == va_sub(m.rsp, VirtAddr(0, 0, 8))
    IN  [m EXCEPT !.rsp = sp, !.mem = [a \in DOMAIN m.mem \cup {sp} |->
                                          IF a = sp THEN v ELSE m.mem[a]]]

\* push_registers!(): sub rsp, 8 * 15; mov [rsp + 8 * i], reg
push_registers(m) ==
    LET sp    == va_sub(m.rsp, VirtAddr(0, 0, 8 * 15))
        slots == { va_add(sp, 8 * (i - 1)) : i \in 1 .. 15 }
        reg(a) == PushedRegisters[CHOOSE i \in 1 .. 15 : va_add(sp, 8 * (i - 1)) = a]
    IN  [m EXCEPT !.rsp = sp, !.mem = [a \in DOMAIN m.mem \cup slots |->
                                          IF a \in slots THEN m.regs[reg(a)]
                                          ELSE m.mem[a]]]

\* and rsp, ~0xf
align16(v) == VirtAddr(v.top, v.mid, v.lo - (v.lo % 16))

\* trap_syscall from its first instruction to call trap_dispatch
trap_syscall(m) ==
    LET m1 == swapgs(m)
        \* mov gs:[pcpu_ustackp], rsp; mov rsp, gs:[pcpu_kstackp]
        m2 == [m1 EXCEPT !.seg = [m1.seg EXCEPT !.ustackp = m1.rsp],
                         !.rsp = m1.seg.kstackp]
        m3 == push(m2, Selector_UDATA)
        m4 == push(m3, m3.seg.ustackp)
        m5 == push(m4, m4.regs["r11"])
        m6 == push(m5, Selector_UCODE)
        m7 == push(m6, m6.regs["rcx"])
        m8 == push(m7, 0)
        m9 == push(m8, T_SYSCALL)
        mA == push_registers(m9)
        \* mov r15, rsp; xor ebp, ebp; and rsp, ~0xf; mov rdi, r15
        mB == [mA EXCEPT !.regs = [mA.regs EXCEPT !["r15"] = mA.rsp, !["rbp"] = 0,
                                                  !["rdi"] = mA.rsp],
                         !.rsp = align16(mA.rsp)]
    IN  mB

\* *(ptr as *const TrapFrame): each field at its repr(C) offset
TrapFrame_read(mem, ptr) ==
    [f \in { TrapFrameFields[i] : i \in 1 .. 22 } |->
        mem[va_add(ptr, 8 * ((CHOOSE i \in 1 .. 22 : TrapFrameFields[i] = f) - 1))]]

\* what user mode can hold in its registers when it executes syscall: rax
\* and rdi are chosen, every other register holds a value of its own
UserRegs(rax, rdi) ==
    [r \in Gprs |-> IF r = "rax" THEN rax
                    ELSE IF r = "rdi" THEN rdi
                    ELSE 100 + CHOOSE i \in 1 .. 15 : TrapFrameFields[i] = r]

UserFlags == { BitsValue({1} \cup s) : s \in SUBSET (Rflags_IF \cup Rflags_AC) }

\* user mode runs with the kernel's segment in IA32_KERNEL_GS_BASE
UserMachines ==
    { [regs |-> UserRegs(rax, rdi), rip |-> rip, rflags |-> fl, rsp |-> sp,
       gs_base |-> 0, kernel_gs_base |-> "gs_base", seg |-> CoreLocalSegment_new,
       mem |-> << >>] :
        rax \in {1, 2, 3}, rdi \in {7, 8, 9}, rip \in {17, 33}, fl \in UserFlags,
        sp \in { VirtAddr(0, 0, 4096), VirtAddr(0, 1, 8) } }

\* syscall in user mode, trap_syscall up to the call, and dispatch, in which
\* the kernel halts
TrapSyscallCall ==
    /\ trap_last = NoTrap
    /\ \E u \in UserMachines :
         LET entry == syscall_insn(u)
             call  == trap_syscall(entry)
             tf    == TrapFrame_read(call.mem, call.regs["rdi"])
         IN  trap_last' = [tf |-> tf, user |-> u, entry |-> entry, call |-> call,
                           end |-> dispatch([arch |-> "x86_64", info |-> tf.info])]
    /\ UNCHANGED notTrap

SyscallNext == TrapSyscallCall

SpecSyscall == TrapBoot /\ [][SyscallNext]_vars

(***************************************************************************)
(* The interrupt stacks of trap::init (arch/x86_64/src/trap.rs) and        *)
(* ArchPcpu::set_interrupt_stack (arch/x86_64/src/cpu.rs)                  *)
(***************************************************************************)
\* the frames of one interrupt stack
IST_STACK_FRAMES == 4

\* vectors().filter_map(..): the ISTs of the vectors in ascending order,
\* Ist::None left out
IstVectors == { v \in Vectors : Vector_ist(v) # Ist_None }

IstSequence ==
    [i \in 1 .. Cardinality(IstVectors) |->
        Vector_ist(CHOOSE v \in IstVectors :
                      Cardinality({ w \in IstVectors : w < v }) = i - 1)]

\* a stack pointer set to the lowest address of the stack
IstStackTop_base(hhdm, phys) == to_virtual(hhdm, phys)

\* alloc_frames(4).unwrap().to_virtual() + 4 * PAGE_SIZE
IstStackTop(hhdm, phys) == va_add(to_virtual(hhdm, phys), IST_STACK_FRAMES * PAGE_SIZE)

\* ArchPcpu::set_interrupt_stack: self.tss.ist[ist - 1].swap(stack_ptr)
set_interrupt_stack(t, ist, stack_ptr) ==
    [tss |-> [t EXCEPT !.ist[ist] = stack_ptr], prev |-> t.ist[ist]]

\* the memory the boot CPU freed before trap::init runs, as runs of frames
IstSeeds ==
    { <<<<1, 40>>>>,
      <<<<1, 4>>, <<6, 4>>, <<11, 5>>, <<17, 6>>, <<24, 8>>, <<40, 9>>>>,
      <<<<1, 7>>, <<9, 3>>>> }

RECURSIVE SeededPmm(_)
SeededPmm(runs) ==
    IF runs = <<>> THEN LinkedListPmm_new
    ELSE free_frames(SeededPmm(Tail(runs)), PAGE_SIZE * Head(runs)[1], Head(runs)[2]).pm

IstInit ==
    /\ \E seed \in IstSeeds : physmap = SeededPmm(seed)
    /\ pmm_last = NoCall
    /\ pmm_panic = FALSE
    /\ SmpIdle
    /\ HatIdle
    /\ IdtIdle
    /\ TrapIdle
    /\ ScopeIdle
    /\ PanicIdle
    /\ HHDM_BASE = VirtAddr(LimbTop - 1, 2 ^ 17 + 2 ^ 10, 0)
    /\ boot = [arch |-> "x86_64", hhdm |-> HHDM_BASE, memmap |-> <<>>,
               pc |-> 1, freed |-> 0]
    /\ hhdm_log = <<>>
    /\ FallocIdle
    /\ PcpuIdle

notIst == <<pmm_last, pmm_panic, smpVars, hatVars, idtVars, trapVars, scopeVars,
            bootVars, panicVars, fallocVars, KERNEL_ELF, exec_cpu>>

\* the CPU reaches the loop over the ISTs in its call of trap::init
IstBegin(c) ==
    /\ ist_cpu[c].pc = "idle"
    /\ ist_cpu' = [ist_cpu EXCEPT ![c] = [@ EXCEPT !.pc = "loop", !.todo = IstSequence]]
    /\ UNCHANGED <<physmap, tss>>
    /\ UNCHANGED notIst

\* one turn of the loop: alloc_frames(4).unwrap(), set_interrupt_stack and
\* the assertion on the previous value
IstStep(c) ==
    /\ ist_cpu[c].pc = "loop"
    /\ \E r \in { alloc_frames(physmap, IST_STACK_FRAMES) } :
         IF r.ret = None
         THEN /\ ist_cpu' = [ist_cpu EXCEPT ![c].pc = "unwrap on None"]
              /\ UNCHANGED <<physmap, tss>>
         ELSE LET ist == Head(ist_cpu[c].todo)
                  sw  == set_interrupt_stack(tss[c], ist, IstStackTop(HHDM_BASE, r.ret))
                  rest == Tail(ist_cpu[c].todo)
              IN  /\ physmap' = r.pm
                  /\ tss' = [tss EXCEPT ![c] = sw.tss]
                  /\ ist_cpu' = [ist_cpu EXCEPT ![c] =
                        [pc |-> IF sw.prev # VirtAddr(0, 0, 0) THEN "assertion failed"
                                ELSE IF rest = <<>> THEN "done" ELSE "loop",
                         todo |-> rest,
                         stacks |-> [i \in DOMAIN @.stacks \cup {ist} |->
                                        IF i = ist THEN r.ret ELSE @.stacks[i]]]]
    /\ UNCHANGED notIst

IstNext == \E c \in CPUs : IstBegin(c) \/ IstStep(c)

SpecIst == IstInit /\ [][IstNext]_vars

(***************************************************************************)
(* The PMM and the owners of frames: a caller frees memory that was never  *)
(* given to the PMM or frames it was handed by alloc_frames, whole or in   *)
(* part.  `held` is the set of frames handed out and not yet given back.   *)
(***************************************************************************)
notOwn == <<smpVars, hatVars, idtVars, trapVars, scopeVars, bootVars, panicVars,
            zeroed, pcpuVars>>

\* the memory the owners know of: the frames below OwnFrames
OwnFrames == MaxFrame - 2

OwnFreeCall ==
    /\ ~pmm_panic
    /\ \E base \in FrameAddrs, n \in 1 .. MaxLen :
          /\ base + PAGE_SIZE * n <= PAGE_SIZE * OwnFrames
          /\ \/ RangeFrames(base, n) \subseteq held
             \/ RangeFrames(base, n) \cap held = {}
          /\ \E r \in { free_frames(physmap, base, n) } :
                /\ physmap' = r.pm
                /\ pmm_panic' = r.panic
                /\ pmm_last' = [op |-> "free", base |-> base, n |-> n,
                                pre |-> physmap, ret |-> None, panic |-> r.panic]
                /\ held' = IF r.panic THEN held ELSE held \ RangeFrames(base, n)
                /\ falloc_last' = [op |-> "free_frames", held |-> held]
    /\ UNCHANGED notOwn

OwnAllocCall ==
    /\ ~pmm_panic
    /\ \E n \in 0 .. MaxLen :
          \E r \in { alloc_frames(physmap, n) } :
              /\ physmap' = r.pm
              /\ pmm_panic' = FALSE
              /\ pmm_last' = [op |-> "alloc", base |-> None, n |-> n,
                              pre |-> physmap, ret |-> r.ret, panic |-> FALSE]
              /\ held' = IF r.ret = None THEN held ELSE held \cup RangeFrames(r.ret, n)
              /\ falloc_last' = [op |-> "alloc_frames", held |-> held]
    /\ UNCHANGED notOwn

OwnNext == OwnFreeCall \/ OwnAllocCall

SpecOwn == PmmInit /\ [][OwnNext]_vars

(***************************************************************************)
(* The trap stubs around dispatch                                          *)
(* Each stub saves the registers, calls dispatch and has, after the call,  *)
(* the path that restores the registers and returns to the interrupted     *)
(* code: trap_common ends in iretq, trap_sysenter in sysexitq and          *)
(* trap_syscall in sysretq.  dispatch writes the frame to the log and then *)
(* leaves through panic! or todo!, both of which enter rust_panic, which   *)
(* halts the CPU.  register_handler has an empty body.                     *)
(***************************************************************************)
T_SYSENTER == 256
MaxRegistered == 2

\* the stub that builds the frame: the two fast system-call entries push
\* their own info value, every gate of the IDT goes through trap_common;
\* the RISC-V entry calls dispatch through its wrapper
StubOf(tf) ==
    IF tf.arch = "riscv64" THEN "riscv dispatch"
    ELSE IF tf.info = T_SYSENTER THEN "trap_sysenter"
    ELSE IF tf.info = T_SYSCALL THEN "trap_syscall"
    ELSE "trap_common"

\* the instruction a stub's path after `call dispatch` ends with
StubReturn(stub) ==
    CASE stub = "trap_common"   -> "iretq"
      [] stub = "trap_sysenter" -> "sysexitq"
      [] stub = "trap_syscall"  -> "sysretq"
      [] OTHER                  -> "ret"

\* where the stub goes after it has called dispatch: into rust_panic when
\* dispatch panicked, down its own return path when dispatch returned
AfterDispatch(stub, end) ==
    IF end.panic = "none" THEN StubReturn(stub) ELSE "rust_panic"

StubFrames ==
    X86Frames \cup RiscvFrames
      \cup [arch : {"x86_64"}, info : {T_SYSENTER, T_SYSENTER_UD, T_SYSCALL}]

\* no trap taken yet, n calls of register_handler made
NoTrapRegistered(n) == [tf |-> [arch |-> "none"], end |-> NoTrap.end, registered |-> n]

StubBoot ==
    /\ physmap = LinkedListPmm_new
    /\ pmm_last = NoCall
    /\ pmm_panic = FALSE
    /\ SmpIdle
    /\ HatIdle
    /\ IdtIdle
    /\ trap_last = NoTrapRegistered(0)
    /\ ScopeIdle
    /\ BootIdle
    /\ PanicIdle
    /\ FallocIdle
    /\ PcpuIdle

\* register_handler(): the body is empty; the model counts the calls
RegisterHandlerCall ==
    /\ trap_last.tf.arch = "none"
    /\ trap_last.registered < MaxRegistered
    /\ trap_last' = NoTrapRegistered(trap_last.registered + 1)
    /\ UNCHANGED notTrap

\* a stub is entered, builds the frame and calls dispatch
StubCall ==
    /\ trap_last.tf.arch = "none"
    /\ \E tf \in StubFrames :
        \E end \in { dispatch(tf) } :
          trap_last' = [tf |-> tf, end |-> end, registered |-> trap_last.registered,
                        stub |-> StubOf(tf),
                        path |-> AfterDispatch(StubOf(tf), end)]
    /\ UNCHANGED notTrap

StubNext == RegisterHandlerCall \/ StubCall

SpecStub == StubBoot /\ [][StubNext]_vars

(***************************************************************************)
(* DummyAllocator: the kernel's GlobalAlloc over the PMM                   *)
(* alloc takes pages_for!(size) frames and returns their HHDM alias.       *)
(* realloc compares the frame counts of the old and the new size: equal    *)
(* counts keep the block, a larger count moves it to new frames and frees  *)
(* the old ones, a smaller count frees the tail of the block in place.     *)
(* dealloc frees pages_for!(size) frames.  A usize handed to free_frames   *)
(* is kept on the limbs, as it may lie beyond the modelled memory.         *)
(***************************************************************************)
\* ptr::null_mut()
null_mut == VirtAddr(0, 0, 0)

\* the sizes of the layouts: whole pages, and sizes that end inside a page
KallocSizes == { PAGE_SIZE * n : n \in 1 .. MaxLen } \cup { 1, PAGE_SIZE + 1 }

\* free_frames(PhysAddr(base), n) for a usize base.  For a base beyond the
\* memory, insert_region finds every node below it, passes its assertions
\* and writes the new node through PhysAddr::new(base).to_virtual(): the
\* sum HHDM_BASE + base overflows (a panic where overflow is checked) or
\* wraps to twice the HHDM base, which for the bases of the model is not a
\* canonical address (a general-protection fault).  Either way the kernel
\* stops in the panic handler.
free_frames_usize(pm, base, num_frames) ==
    IF PhysAddr_of(base) = None THEN [pm |-> pm, panic |-> TRUE]
    ELSE free_frames(pm, PhysAddr_of(base), num_frames)

\* DummyAllocator::alloc(layout)
DummyAllocator_alloc(pm, hhdm, size) ==
    LET r == alloc_frames(pm, pages_for(size))
    IN  [pm |-> r.pm, panic |-> FALSE, freed |-> <<>>,
         ret |-> IF r.ret = None THEN null_mut ELSE to_virtual(hhdm, r.ret)]

\* PhysAddr::new(ptr as usize + PAGE_SIZE * new_frames)
FreedBase(hhdm, ptr, new_frames) == va_add(ptr, PAGE_SIZE * new_frames)

\* DummyAllocator::realloc(ptr, layout, new_size)
DummyAllocator_realloc(pm, hhdm, ptr, size, new_size) ==
    LET old_frames == pages_for(size)
        new_frames == pages_for(new_size)
    IN  IF new_frames = old_frames
          THEN [pm |-> pm, panic |-> FALSE, freed |-> <<>>, ret |-> ptr]
        ELSE IF new_frames < old_frames
          THEN LET freed_frames == old_frames - new_frames
                   freed_base   == FreedBase(hhdm, ptr, new_frames)
                   f == free_frames_usize(pm, freed_base, freed_frames)
               IN  [pm |-> f.pm, panic |-> f.panic,
                    freed |-> <<[base |-> freed_base, n |-> freed_frames]>>,
                    ret |-> ptr]
        ELSE LET r == alloc_frames(pm, new_frames)
             IN  IF r.ret = None
                   THEN [pm |-> r.pm, panic |-> FALSE, freed |-> <<>>, ret |-> null_mut]
                   ELSE LET base == va_sub(ptr, hhdm)
                            f == free_frames_usize(r.pm, base, old_frames)
                        IN  [pm |-> f.pm, panic |-> f.panic,
                             freed |-> <<[base |-> base, n |-> old_frames]>>,
                             ret |-> to_virtual(hhdm, r.ret)]

\* DummyAllocator::dealloc(ptr, layout)
DummyAllocator_dealloc(pm, hhdm, ptr, size) ==
    LET base == va_sub(ptr, hhdm)
        f == free_frames_usize(pm, base, pages_for(size))
    IN  [pm |-> f.pm, panic |-> f.panic,
         freed |-> <<[base |-> base, n |-> pages_for(size)]>>, ret |-> null_mut]

KallocAllocCall ==
    /\ ~pmm_panic
    /\ Cardinality(held) < MaxHeld
    /\ \E size \in KallocSizes :
         \E r \in { DummyAllocator_alloc(physmap, HHDM_BASE, size) } :
            /\ physmap' = r.pm
            /\ held' = IF r.ret = null_mut THEN held
                       ELSE held \cup {[ptr |-> r.ret, len |-> size]}
            /\ falloc_last' = [op |-> "alloc", ptr |-> null_mut, size |-> size,
                               new_size |-> size, ret |-> r.ret, freed |-> r.freed]
    /\ UNCHANGED <<pmm_panic, zeroed>>
    /\ UNCHANGED notFalloc

\* a failed realloc returns null and leaves the old block with its owner
KallocReallocCall ==
    /\ ~pmm_panic
    /\ \E h \in held, new_size \in KallocSizes :
         \E r \in { DummyAllocator_realloc(physmap, HHDM_BASE, h.ptr, h.len, new_size) } :
            /\ physmap' = r.pm
            /\ pmm_panic' = r.panic
            /\ held' = IF r.ret = null_mut THEN held
                       ELSE (held \ {h}) \cup {[ptr |-> r.ret, len |-> new_size]}
            /\ falloc_last' = [op |-> "realloc", ptr |-> h.ptr, size |-> h.len,
                               new_size |-> new_size, ret |-> r.ret, freed |-> r.freed]
    /\ UNCHANGED zeroed
    /\ UNCHANGED notFalloc

KallocDeallocCall ==
    /\ ~pmm_panic
    /\ \E h \in held :
         \E r \in { DummyAllocator_dealloc(physmap, HHDM_BASE, h.ptr, h.len) } :
            /\ physmap' = r.pm
            /\ pmm_panic' = r.panic
            /\ held' = held \ {h}
            /\ falloc_last' = [op |-> "dealloc", ptr |-> h.ptr, size |-> h.len,
                               new_size |-> 0, ret |-> r.ret, freed |-> r.freed]
    /\ UNCHANGED zeroed
    /\ UNCHANGED notFalloc

KallocNext == KallocAllocCall \/ KallocReallocCall \/ KallocDeallocCall

SpecKalloc == FallocInit /\ [][KallocNext]_vars

(***************************************************************************)
(* register_executable                                                     *)
(* KERNEL_ELF is a spin::RwLock around an Option.  register_executable     *)
(* takes the write guard, stores the image when the slot is None and       *)
(* answers Ok, answers Err otherwise, and drops the guard on return.       *)
(* Images are told apart by a number.                                      *)
(***************************************************************************)
\* calls a CPU makes, and the images it may pass
MaxExecCalls == 2
ExecImages == 1 .. 2

\* the body under the write guard: [exec |-> the slot afterwards, ret |-> the result]
register_executable_overwrite(exec, elf) == [exec |-> elf, ret |-> "Ok"]

register_executable(exec, elf) ==
    IF exec = None THEN [exec |-> elf, ret |-> "Ok"]
    ELSE [exec |-> exec, ret |-> "Err"]

\* RwLock::write succeeds when no guard is out
RwLock_write(l, c) ==
    IF l.writer = 0 THEN [ok |-> TRUE, lock |-> [l EXCEPT !.writer = c]]
    ELSE [ok |-> FALSE, lock |-> l]

notExec == <<pmmVars, smpVars, hatVars, idtVars, trapVars, scopeVars, bootVars,
             panicVars, fallocVars, tss, ist_cpu>>

\* CPU c calls register_executable(elf)
ExecCall(c) ==
    /\ exec_cpu[c].pc \in {"idle", "done"}
    /\ exec_cpu[c].calls < MaxExecCalls
    /\ \E elf \in ExecImages :
         exec_cpu' = [exec_cpu EXCEPT ![c] = [@ EXCEPT !.pc = "write", !.elf = elf,
                                                       !.ret = "none",
                                                       !.calls = @ + 1]]
    /\ UNCHANGED KERNEL_ELF
    /\ UNCHANGED notExec

\* KERNEL_ELF.write(): the CPU spins until the lock is free
ExecWrite(c) ==
    /\ exec_cpu[c].pc = "write"
    /\ \E r \in { RwLock_write(KERNEL_ELF, c) } :
         /\ r.ok
         /\ KERNEL_ELF' = r.lock
    /\ exec_cpu' = [exec_cpu EXCEPT ![c].pc = "locked"]
    /\ UNCHANGED notExec

\* if exec.is_none(): the slot is read under the guard; a slot that is
\* taken answers Err
ExecTest(c) ==
    /\ exec_cpu[c].pc = "locked"
    /\ \E r \in { register_executable(KERNEL_ELF.value, exec_cpu[c].elf) } :
         exec_cpu' = [exec_cpu EXCEPT ![c] =
                         IF r.ret = "Ok" THEN [@ EXCEPT !.pc = "store"]
                         ELSE [@ EXCEPT !.pc = "drop", !.ret = "Err"]]
    /\ UNCHANGED KERNEL_ELF
    /\ UNCHANGED notExec

\* *exec = Some(elf); Ok(())
ExecStore(c) ==
    /\ exec_cpu[c].pc = "store"
    /\ KERNEL_ELF' = [KERNEL_ELF EXCEPT !.value = exec_cpu[c].elf]
    /\ exec_cpu' = [exec_cpu EXCEPT ![c] =
                       [@ EXCEPT !.pc = "drop", !.ret = "Ok", !.oks = @ + 1]]
    /\ UNCHANGED notExec

\* the guard is dropped as the function returns
ExecDrop(c) ==
    /\ exec_cpu[c].pc = "drop"
    /\ KERNEL_ELF' = [KERNEL_ELF EXCEPT !.writer = 0]
    /\ exec_cpu' = [exec_cpu EXCEPT ![c].pc = "done"]
    /\ UNCHANGED notExec

ExecNext ==
    \E c \in CPUs : ExecCall(c) \/ ExecWrite(c) \/ ExecTest(c) \/ ExecStore(c) \/ ExecDrop(c)

SpecExec == TrapBoot /\ [][ExecNext]_vars

(***************************************************************************)
(* Properties of the PMM                                                   *)
(***************************************************************************)
LastAlloc == pmm_last.op = "alloc"
LastFree  == pmm_last.op = "free"

\* C1: in every state reached by free_frames calls that meet their
\* preconditions and by alloc_frames calls, the free list is strictly sorted
\* by base and adjacent runs neither overlap nor touch:
\* a.base + PAGE_SIZE * a.len < b.base.
C1_SortedNoTouching ==
    LET R == Runs(physmap)
    IN  \A i \in 1 .. (Len(R) - 1) :
            /\ R[i].base < R[i + 1].base
            /\ R[i].base + PAGE_SIZE * R[i].len < R[i + 1].base

\* a free that joined its two neighbours, leaving at least two runs
C1_Witness ==
    /\ LastFree /\ ~pmm_last.panic
    /\ Len(Runs(physmap)) >= 2
    /\ Len(Runs(physmap)) < Len(Runs(pmm_last.pre))

\* the index of the highest-based run of R with at least n frames
FitIdx(R, n) == { i \in DOMAIN R : R[i].len >= n }
HighestFit(R, n) ==
    CHOOSE i \in FitIdx(R, n) : \A j \in FitIdx(R, n) : R[j].base <= R[i].base

\* R with n frames taken off run i, the run deleted when nothing is left
RunsAfterCarve(R, i, n) ==
    IF R[i].len = n
      THEN SubSeq(R, 1, i - 1) \o SubSeq(R, i + 1, Len(R))
      ELSE [R EXCEPT ![i].len = @ - n]

\* C2: alloc_frames(n) takes the top n frames of the highest-based run with
\* len >= n (returning base + PAGE_SIZE * (len - n)), unlinks the run when it
\* becomes empty and leaves the other runs alone; it returns None and changes
\* nothing exactly when no run fits.  free_frames(base, n); alloc_frames(n)
\* on an empty allocator returns base and leaves the allocator empty.
C2_AllocCarvesTail ==
    /\ LastAlloc =>
          LET R == Runs(pmm_last.pre)
              n == pmm_last.n
          IN  IF FitIdx(R, n) = {}
                THEN pmm_last.ret = None /\ physmap = pmm_last.pre
                ELSE LET i == HighestFit(R, n)
                     IN  /\ pmm_last.ret = R[i].base + PAGE_SIZE * (R[i].len - n)
                         /\ pmm_last.ret # None
                         /\ Runs(physmap) = RunsAfterCarve(R, i, n)
    /\ LastFree /\ ~pmm_last.panic /\ Runs(pmm_last.pre) = <<>> =>
          LET a == alloc_frames(physmap, pmm_last.n)
          IN  a.ret = pmm_last.base /\ a.pm = LinkedListPmm_new

\* an allocation that skipped the tail run and emptied the run it took
C2_Witness ==
    /\ LastAlloc /\ pmm_last.ret # None
    /\ Len(Runs(pmm_last.pre)) >= 2
    /\ Len(Runs(physmap)) < Len(Runs(pmm_last.pre))
    /\ pmm_last.ret < Runs(pmm_last.pre)[Len(Runs(pmm_last.pre))].base

\* C3: a free_frames(base, n), n > 0, whose range intersects a free run
\* (partly, containing it, or spanning several runs) aborts on the
\* 'overlapping regions' assertion and inserts nothing.
C3_OverlapAborts ==
    /\ ~pmm_panic =>
          \A base \in FrameAddrs, n \in 1 .. MaxFrame :
              RangeFrames(base, n) \cap FreeFrames(physmap) # {}
                  => free_frames(physmap, base, n).panic
    /\ LastFree /\ RangeFrames(pmm_last.base, pmm_last.n)
                      \cap FreeFrames(pmm_last.pre) # {}
          => pmm_last.panic /\ pmm_panic /\ physmap = pmm_last.pre

\* an aborted free whose range strictly contained a free run (it began below
\* the run and ended above it): only the right neighbour's check sees it
C3_Witness ==
    /\ LastFree /\ pmm_last.panic
    /\ pmm_last.base \notin FreeFrames(pmm_last.pre)
    /\ \E i \in DOMAIN Runs(pmm_last.pre) :
          LET r == Runs(pmm_last.pre)[i]
          IN  /\ pmm_last.base < r.base
              /\ r.base + PAGE_SIZE * r.len < pmm_last.base + PAGE_SIZE * pmm_last.n

\* C4: from any free list, free_frames(b, n); free_frames(b + n * PAGE_SIZE, m)
\* leaves the same runs as free_frames(b, n + m); from the empty list, freeing
\* (0x1000, 3), (0x4000, 2), (0x6000, 1) leaves the single run (0x1000, 6).
C4_CoalescingLaw ==
    /\ ~pmm_panic =>
          \A b \in FrameAddrs, n \in 1 .. MaxLen, m \in 1 .. MaxLen :
              LET one  == free_frames(physmap, b, n + m)
                  two1 == free_frames(physmap, b, n)
                  two2 == free_frames(two1.pm, b + n * PAGE_SIZE, m)
              IN  ~one.panic =>
                      /\ ~two1.panic /\ ~two2.panic
                      /\ Runs(two2.pm) = Runs(one.pm)
    /\ LET s1 == free_frames(LinkedListPmm_new, 4096, 3)
           s2 == free_frames(s1.pm, 16384, 2)
           s3 == free_frames(s2.pm, 24576, 1)
       IN  /\ ~s1.panic /\ ~s2.panic /\ ~s3.panic
           /\ Runs(s3.pm) = <<[base |-> 4096, len |-> 6]>>

\* the third free of the scenario has just run
C4_Witness ==
    /\ LastFree /\ ~pmm_last.panic
    /\ pmm_last.base = 24576 /\ pmm_last.n = 1
    /\ Runs(pmm_last.pre) = <<[base |-> 4096, len |-> 5]>>
    /\ Runs(physmap) = <<[base |-> 4096, len |-> 6]>>

\* the frames of the allocations CPU c holds
HeldFrames(c) == UNION { RangeFrames(h[1], h[2]) : h \in cpu[c].held }

InCritical(c) == cpu[c].pc \in {"locked", "walked"}

\* C5: with several CPUs calling alloc_frames and free_frames, the calls take
\* effect one at a time under the PHYSMAP lock: no two CPUs are inside the
\* locked body together, every result and the list left behind are those of
\* running the calls one after another in the order they took the lock, and
\* allocations held at the same time never overlap.
C5_Serialized ==
    /\ \A c, d \in CPUs : InCritical(c) /\ InCritical(d) => c = d
    /\ lock <=> \E c \in CPUs : InCritical(c)
    /\ physmap = seq_physmap
    /\ smp_last.ret = smp_last.seq_ret
    /\ \A c, d \in CPUs :
          /\ c # d => HeldFrames(c) \cap HeldFrames(d) = {}
          /\ \A h, k \in cpu[c].held :
                h # k => RangeFrames(h[1], h[2]) \cap RangeFrames(k[1], k[2]) = {}
    /\ ~pmm_panic

\* an allocation returned while another CPU was spinning on the lock, with
\* both CPUs holding frames afterwards
C5_Witness ==
    /\ smp_last.op = "alloc" /\ smp_last.ret # None /\ smp_last.contended
    /\ \E c, d \in CPUs : c # d /\ cpu[c].held # {} /\ cpu[d].held # {}

(***************************************************************************)
(* Properties of the HAT                                                   *)
(***************************************************************************)
LastMap == hat_last.op = "map"

\* the Hat the last call was made on
LastHat == hats[hat_last.hat]

\* the page tables as they were before the last call
PrePt == Before(pt, hat_last.changed)

\* the level the last call maps at, and the bytes one page has there
LastLevel == MapLevel(mmu_info, hat_last.page_size)
LastPageSize == mmu_info.page_size[LastLevel + 1]
LastPages == 0 .. ((hat_last.size \div LastPageSize) - 1)

\* the preconditions map_pages asserts
MeetsPreconditions ==
    /\ is_canonical(mmu_info, hat_last.virt)
    /\ va_is_aligned(hat_last.virt, LastPageSize)
    /\ pa_is_aligned(hat_last.phys, LastPageSize)
    /\ hat_last.size % LastPageSize = 0

RECURSIVE Walk(_, _, _, _, _, _)

\* the walk the MMU makes for `virt` from `table` at `level` down to the level
\* `leaf`: how it ends, the entry it ends at and where that entry is, and
\* whether every intermediate entry it went through had USER and WRITE
Walk(ptm, table, virt, level, leaf, wide) ==
    LET i == index_for(virt, level)
        e == ReadPte(ptm, table, i)
        at(how) == [how |-> how, entry |-> e, wide |-> wide, table |-> table,
                    index |-> i]
    IN  IF level = leaf THEN at("leaf")
        ELSE IF ~Pte_present(e) THEN at("absent")
        ELSE IF Pte_huge(e) THEN at("huge")
        ELSE Walk(ptm, Pte_addr(e), virt, level - 1, leaf,
                  wide /\ PARENT_FLAGS \subseteq e.bits)

\* the walk in the page tables `ptm` for page k of the last call's range
PageWalk(ptm, k) ==
    Walk(ptm, LastHat.top_level, va_add(hat_last.virt, k * LastPageSize),
         mmu_info.max_level, LastLevel, TRUE)

\* the leaf the last call asks for at page k
NewLeaf(k) ==
    Pte_new(hat_last.phys + k * LastPageSize,
            mmu_info.protmap[hat_last.prot] \cup mmu_info.pte_flags[LastLevel + 1]
                \cup PRESENT)

\* no page of the range was mapped before the call
NoPriorMapping ==
    LET pre == PrePt
    IN  \A k \in LastPages :
            LET w == PageWalk(pre, k)
            IN  \/ w.how = "absent"
                \/ w.how = "leaf" /\ ~Pte_present(w.entry)

\* C6 (amended): whenever map_pages returns Ok, a walk of the page tables
\* finds for each page k of the range a leaf at the level the call maps at
\* (the requested one, or 2 MiB when 1 GiB is requested on a CPU without
\* gigapages) equal to Pte::new(phys + k * page_size, protmap[prot] |
\* pte_flags[level] | PRESENT), with page_size the size of a page at that
\* level, reached through intermediate entries that are all present, not huge,
\* and have USER and WRITE set.
C6_LeafAtMapLevel ==
    (LastMap /\ hat_last.ret = Ok) =>
        \A k \in LastPages :
            LET w == PageWalk(pt, k)
            IN  w.how = "leaf" /\ w.wide /\ w.entry = NewLeaf(k)

\* a 1 GiB request on a CPU without gigapages, on an unmapped range, returned Ok
C6_Witness ==
    /\ LastMap /\ hat_last.ret = Ok /\ NoPriorMapping
    /\ hat_last.page_size = Size1GiB /\ ~mmu_info.gigapages
    /\ hat_last.changed # <<>>

\* C6 as stated: the leaf is at the requested level ps, with the page size and
\* the flags of that level.
C6_LeafAtRequestedLevel ==
    (LastMap /\ hat_last.ret = Ok /\ NoPriorMapping) =>
        LET ps  == hat_last.page_size
            psz == mmu_info.page_size[ps + 1]
        IN  \A k \in 0 .. ((hat_last.size \div psz) - 1) :
                LET w == Walk(pt, LastHat.top_level,
                              va_add(hat_last.virt, k * psz),
                              mmu_info.max_level, ps, TRUE)
                IN  /\ w.how = "leaf"
                    /\ w.wide
                    /\ w.entry = Pte_new(hat_last.phys + k * psz,
                                         mmu_info.protmap[hat_last.prot]
                                            \cup mmu_info.pte_flags[ps + 1]
                                            \cup PRESENT)

\* C7: after hat::init, for every Prot value, MMU_INFO.protmap[prot] contains
\* WRITE iff prot includes write, NO_EXECUTE iff prot lacks exec and the CPU
\* has EXECUTE_DISABLE, and USER iff prot includes user.
C7_ProtMapLaw ==
    (hat_pc # "boot") =>
        \A prot \in Prots :
            /\ (WRITE \subseteq mmu_info.protmap[prot]) <=> Prot_has(prot, Prot_WRITE)
            /\ (NO_EXECUTE \subseteq mmu_info.protmap[prot])
                  <=> (~Prot_has(prot, Prot_EXEC) /\ "EXECUTE_DISABLE" \in cpu_features)
            /\ (USER \subseteq mmu_info.protmap[prot]) <=> Prot_has(prot, Prot_USER)

\* the pages of the range whose leaf is present in `ptm` with a value other
\* than the one the last call asks for
Conflicts(ptm) ==
    { k \in LastPages : LET w == PageWalk(ptm, k)
                        IN  /\ w.how = "leaf"
                            /\ Pte_present(w.entry)
                            /\ w.entry # NewLeaf(k) }

\* the pages of the range whose walk in `ptm` runs into a huge page above the
\* leaf level
Clobbers(ptm) == { k \in LastPages : PageWalk(ptm, k).how = "huge" }

C9_IdenticalRemap ==
    /\ (LastMap /\ hat_last.prev_phys = hat_last.phys) =>
          /\ hat_last.ret = Ok
          /\ DOMAIN hat_last.changed = {}
          /\ nt = hat_last.pre_nt
    /\ (LastMap /\ hat_last.ret = Ok) =>
          LET r == map_pages(pt, nt, mmu_info, LastHat, hat_last.virt,
                             hat_last.phys, hat_last.size, hat_last.page_size,
                             hat_last.prot)
          IN  r.ret = Ok /\ r.pt = pt /\ r.nt = nt

\* the last call repeated the one before it, which had mapped two pages
C9_Witness ==
    /\ LastMap /\ hat_last.prev_phys = hat_last.phys
    /\ hat_last.ret = Ok
    /\ hat_last.size \div LastPageSize = 2

\* C10: a map_pages call at 2 MiB whose level-1 entry is a present
\* intermediate (4 KiB pages are mapped under it) aborts.
C10_HugeOverSmallAborts ==
    (/\ LastMap /\ MeetsPreconditions
     /\ hat_last.page_size = Size2MiB
     /\ LET w == PageWalk(PrePt, 0)
        IN  w.how = "leaf" /\ Pte_present(w.entry) /\ ~Pte_huge(w.entry))
    => hat_last.ret.kind = "panic"

LastUnmap == hat_last.op = "unmap"

\* the preconditions unmap_pages asserts
MeetsUnmapPreconditions ==
    /\ va_is_aligned(hat_last.virt, LastPageSize)
    /\ hat_last.size % LastPageSize = 0

\* every page of the last call's range has in `ptm` a leaf at the level of the
\* call: present, and huge exactly above level 0
MappedAtLevel(ptm) ==
    \A k \in LastPages :
        LET w == PageWalk(ptm, k)
        IN  /\ w.how = "leaf"
            /\ Pte_present(w.entry)
            /\ Pte_huge(w.entry) <=> (LastLevel > 0)

\* C11: after unmap_pages(virt, size, ps) on a range that was mapped at page
\* size ps, the call returns, the leaf of every page of the range is Pte::NULL
\* and is still reached by the walk (every intermediate table is in place),
\* every other entry of every table is as it was, and no table was allocated.
C11_UnmapClearsRange ==
    LET pre == PrePt
    IN  (LastUnmap /\ MeetsUnmapPreconditions /\ MappedAtLevel(pre)) =>
            /\ hat_last.ret = Ok
            /\ \A k \in LastPages :
                  LET w == PageWalk(pt, k)
                  IN  w.how = "leaf" /\ w.entry = Pte_NULL
            /\ LET slots == { <<PageWalk(pre, k).table, PageWalk(pre, k).index>> :
                                k \in LastPages }
               IN  \A t \in (DOMAIN pre) \cup (DOMAIN pt) :
                      \A i \in 0 .. (PTES_PER_TABLE - 1) :
                         (<<t, i>> \notin slots) => ReadPte(pt, t, i) = ReadPte(pre, t, i)
            /\ nt = hat_last.pre_nt

\* two mapped pages were unmapped
C11_Witness ==
    /\ LastUnmap /\ MeetsUnmapPreconditions /\ MappedAtLevel(PrePt)
    /\ hat_last.size \div LastPageSize = 2
    /\ hat_last.ret = Ok

\* the last call asked for 1 GiB pages on a CPU without gigapages
LastDowngraded == hat_last.page_size = Size1GiB /\ ~mmu_info.gigapages

\* C12: on a CPU without gigapages, a map_pages call with page_size = 1 GiB
\* ends exactly as the same call with page_size = 2 MiB made in the same state
\* (same page tables, same number of tables, same result or the same abort,
\* same Hat), maps 512 pages at the 2 MiB level for each GiB, and checks the
\* alignment against 2 MiB; an unmap_pages call with page_size = 1 GiB ends as
\* the same call with page_size = 2 MiB.
C12_GigapageDowngrade ==
    LET pre == PrePt
    IN  /\ (LastMap /\ LastDowngraded) =>
              LET r == map_pages(pre, hat_last.pre_nt, mmu_info, LastHat,
                                 hat_last.virt, hat_last.phys, hat_last.size,
                                 Size2MiB, hat_last.prot)
              IN  /\ r.pt = pt /\ r.nt = nt /\ r.ret = hat_last.ret
                  /\ r.hat = LastHat
                  /\ LastLevel = Size2MiB
                  /\ (hat_last.ret = Ok) =>
                        Cardinality(LastPages) = PTES_PER_TABLE * (hat_last.size \div PAGE_SIZE_1G)
                  /\ (/\ is_canonical(mmu_info, hat_last.virt)
                      /\ va_is_aligned(hat_last.virt, PAGE_SIZE_2M)
                      /\ pa_is_aligned(hat_last.phys, PAGE_SIZE_2M))
                        => hat_last.ret.msg \notin
                              { "assertion failed: virt.is_aligned(page_size)",
                                "assertion failed: phys.is_aligned(page_size)" }
        /\ (LastUnmap /\ LastDowngraded) =>
              LET r == unmap_pages(pre, mmu_info, LastHat, hat_last.virt,
                                   hat_last.size, Size2MiB)
              IN  r.pt = pt /\ r.ret = hat_last.ret /\ LastLevel = Size2MiB

\* a 1 GiB request at a physical address aligned to 2 MiB only was mapped
C12_Witness ==
    /\ LastMap /\ LastDowngraded
    /\ hat_last.ret = Ok
    /\ hat_last.phys = PAGE_SIZE_2M
    /\ hat_last.changed # <<>>

LastNew == hat_last.op = "new"

\* C13: the Hat returned by Hat::new(asid) has a top-level table whose
\* entries PTES_PER_TABLE/2 .. PTES_PER_TABLE-1 equal those of INITIAL_PTES
\* and whose lower entries are absent, pcid = asid & 0xfff, and cr3 equal to
\* the table's address with pcid in its low bits when PCID is enabled and to
\* the bare address otherwise.
C13_NewHat ==
    LastNew =>
        LET h   == LastHat
            low == h.cr3 % PAGE_SIZE
        IN  /\ \A i \in (PTES_PER_TABLE \div 2) .. (PTES_PER_TABLE - 1) :
                  ReadPte(pt, h.top_level, i)
                     = (IF i \in DOMAIN initial_ptes THEN initial_ptes[i] ELSE Pte_NULL)
            /\ \A i \in 0 .. ((PTES_PER_TABLE \div 2) - 1) :
                  ~Pte_present(ReadPte(pt, h.top_level, i))
            /\ h.pcid = hat_last.asid % 4096
            /\ h.cr3 - low = h.top_level
            /\ low = (IF mmu_info.pcide THEN h.pcid ELSE 0)

\* a Hat was made for an asid above 0xfff on a CPU with PCID
C13_Witness ==
    /\ LastNew /\ hat_last.asid > 4095 /\ mmu_info.pcide
    /\ Pte_present(ReadPte(pt, LastHat.top_level, PTES_PER_TABLE - 1))

\* the tables of level `level` reached from the top-level tables `tops`
RECURSIVE TablesFrom(_, _, _)
TablesFrom(ptm, tops, level) ==
    IF level = mmu_info.max_level
      THEN tops
      ELSE { Pte_addr(ReadPte(ptm, t, i)) :
                <<t, i>> \in { <<u, j>> \in UNION { {v} \X DOMAIN Table(ptm, v) :
                                                    v \in TablesFrom(ptm, tops, level + 1) } :
                                 /\ Pte_present(ReadPte(ptm, u, j))
                                 /\ ~Pte_huge(ReadPte(ptm, u, j)) } }

\* the tables of level `level` reached from the top-level tables of the Hats
TablesAt(ptm, level) == TablesFrom(ptm, { hats[h].top_level : h \in DOMAIN hats }, level)

\* the slots <<table, index>> of `ptm` that point to a child table holding a
\* present entry
BusyIntermediates(ptm) ==
    UNION { { <<t, i>> \in {t0} \X DOMAIN Table(ptm, t0) :
                /\ Pte_present(ReadPte(ptm, t, i))
                /\ ~Pte_huge(ReadPte(ptm, t, i))
                /\ \E j \in DOMAIN Table(ptm, Pte_addr(ReadPte(ptm, t, i))) :
                      Pte_present(ReadPte(ptm, Pte_addr(ReadPte(ptm, t, i)), j)) } :
            t0 \in UNION { TablesAt(ptm, l) : l \in 1 .. mmu_info.max_level } }

\* the slots of `ptm` that hold a leaf: present at level 0, present and huge above
Leaves(ptm) ==
    UNION { { <<t, i>> \in {t0} \X DOMAIN Table(ptm, t0) :
                Pte_present(ReadPte(ptm, t, i)) } : t0 \in TablesAt(ptm, 0) }
    \cup UNION { { <<t, i>> \in {t0} \X DOMAIN Table(ptm, t0) :
                     Pte_present(ReadPte(ptm, t, i)) /\ Pte_huge(ReadPte(ptm, t, i)) } :
                 t0 \in UNION { TablesAt(ptm, l) : l \in 1 .. mmu_info.max_level } }

\* C23: over map_pages and unmap_pages calls, an entry that points to a child
\* table holding a present entry stays a pointer to that table (it becomes
\* neither absent nor a leaf), and a leaf becomes absent only in unmap_pages.
C23_IntermediatesKept ==
    LET pre == PrePt
    IN  (hat_last.op \in {"map", "unmap"}) =>
          /\ \A s \in BusyIntermediates(pre) :
                /\ Pte_present(ReadPte(pt, s[1], s[2]))
                /\ ~Pte_huge(ReadPte(pt, s[1], s[2]))
                /\ Pte_addr(ReadPte(pt, s[1], s[2])) = Pte_addr(ReadPte(pre, s[1], s[2]))
          /\ \A s \in Leaves(pre) :
                ~Pte_present(ReadPte(pt, s[1], s[2])) => LastUnmap

\* the levels below the one of `table` in `ptm`
LevelsBelow(ptm, table) ==
    { l \in 0 .. (mmu_info.max_level - 1) :
        \E m \in (l + 1) .. mmu_info.max_level : table \in TablesAt(ptm, m) }

\* C24: a map_pages call whose walk meets, above its target level, a present
\* entry with HUGE aborts with "translation clobbers huge page"; the huge
\* entry, the table it is in, every table of a lower level and the number of
\* allocated tables are as before the call.
C24_HugeNotClobbered ==
    LET pre == PrePt
        w   == PageWalk(pre, 0)
    IN  (LastMap /\ MeetsPreconditions /\ hat_last.size > 0 /\ w.how = "huge") =>
          /\ hat_last.ret = Panic("translation clobbers huge page")
          /\ ReadPte(pt, w.table, w.index) = w.entry
          /\ Table(pt, w.table) = Table(pre, w.table)
          /\ nt = hat_last.pre_nt
          /\ \A l \in LevelsBelow(pre, w.table) :
                \A t \in TablesAt(pre, l) \cup TablesAt(pt, l) :
                    Table(pt, t) = Table(pre, t)

\* a 4 KiB page was to be mapped inside a 2 MiB mapping
C24_Witness ==
    LET w == PageWalk(PrePt, 0)
    IN  /\ LastMap /\ MeetsPreconditions
        /\ hat_last.page_size = Size4KiB
        /\ w.how = "huge" /\ Pte_present(w.entry)
        /\ w.table \in TablesAt(PrePt, 1)
        /\ hat_last.ret.kind = "panic"

\* the pages k, k + 1, .. of the last call's range mapped by one map_pages
\* call each, stopping at the first call that does not return Ok
RECURSIVE PageByPage(_, _, _, _)
PageByPage(ptm, ntc, hat, k) ==
    IF k \notin LastPages THEN [pt |-> ptm, nt |-> ntc, ret |-> Ok]
    ELSE LET r == map_pages(ptm, ntc, mmu_info, hat,
                            va_add(hat_last.virt, k * LastPageSize),
                            hat_last.phys + k * LastPageSize, LastPageSize,
                            LastLevel, hat_last.prot)
         IN  IF r.ret # Ok THEN [pt |-> r.pt, nt |-> r.nt, ret |-> r.ret]
             ELSE PageByPage(r.pt, r.nt, r.hat, k + 1)

\* the last call's range runs over the end of the table its first leaf is in
CrossesTable ==
    Cardinality(LastPages) > PTES_PER_TABLE - index_for(hat_last.virt, LastLevel)

\* C25: a map_pages call over a range that crosses a table boundary leaves
\* the page tables, the allocated tables and the outcome exactly as one
\* map_pages call per page over the same range does.
C25_CrossingAsPageByPage ==
    (LastMap /\ MeetsPreconditions /\ CrossesTable) =>
        LET r == PageByPage(PrePt, hat_last.pre_nt, LastHat, 0)
        IN  r.pt = pt /\ r.nt = nt /\ r.ret = hat_last.ret

\* two 4 KiB pages were mapped, the second in a table allocated by the call
C25_Witness ==
    /\ LastMap /\ MeetsPreconditions /\ CrossesTable
    /\ hat_last.page_size = Size4KiB
    /\ hat_last.ret = Ok
    /\ nt > hat_last.pre_nt + 1
    /\ PageWalk(pt, 0).table # PageWalk(pt, 1).table
    /\ Pte_present(PageWalk(pt, 1).entry)

\* the leaves of level `level` in the address space of `hat`: the present
\* entries of its tables of that level, huge above level 0
LeavesOf(hat, level) ==
    UNION { { <<t, i>> \in {t0} \X DOMAIN Table(pt, t0) :
                /\ Pte_present(ReadPte(pt, t, i))
                /\ (level > 0) => Pte_huge(ReadPte(pt, t, i)) } :
            t0 \in TablesFrom(pt, {hat.top_level}, level) }

\* C26: after a successful map_pages call that maps at level L,
\* mapped_pages[L] of the Hat equals the number of pages of that size mapped
\* in its address space.
C26_MappedPagesExact ==
    (LastMap /\ hat_last.ret = Ok) =>
        LastHat.mapped_pages[LastLevel] = Cardinality(LeavesOf(LastHat, LastLevel))

\* INITIAL_PTES[i]
InitialPte(i) == IF i \in DOMAIN initial_ptes THEN initial_ptes[i] ELSE Pte_NULL

\* C27: after init, whatever map_pages and unmap_pages calls are made on
\* whichever Hat, the top-level entries PTES_PER_TABLE/2 .. PTES_PER_TABLE-1 of
\* every Hat equal INITIAL_PTES, and the walk for a kernel-half address ends
\* at the same entry through every Hat.
C27_KernelHalfShared ==
    (hat_pc # "boot") =>
        /\ \A h \in DOMAIN hats :
              \A i \in (PTES_PER_TABLE \div 2) .. (PTES_PER_TABLE - 1) :
                  ReadPte(pt, hats[h].top_level, i) = InitialPte(i)
        /\ \A g, h \in DOMAIN hats :
              \A v \in MapVirts :
                  LET wg == Walk(pt, hats[g].top_level, v, mmu_info.max_level, 0, TRUE)
                      wh == Walk(pt, hats[h].top_level, v, mmu_info.max_level, 0, TRUE)
                  IN  wg.how = wh.how /\ wg.entry = wh.entry /\ wg.table = wh.table

\* a page mapped through one Hat is found by the walk through another
C27_Witness ==
    /\ LastMap /\ hat_last.ret = Ok
    /\ \E h \in DOMAIN hats :
          /\ h # hat_last.hat
          /\ LET w == Walk(pt, hats[h].top_level, hat_last.virt, mmu_info.max_level,
                           LastLevel, TRUE)
             IN  w.how = "leaf" /\ w.entry = NewLeaf(0)

(***************************************************************************)
(* Properties of the IDT                                                   *)
(***************************************************************************)
\* the entry address a descriptor holds, reassembled from its three fields
GateOffset(d) ==
    FieldBits(d, 0, 15) \cup Shl(FieldBits(d, 48, 63), 16) \cup Shl(FieldBits(d, 64, 95), 32)

\* C14: once a CPU has loaded the IDT, every descriptor v decodes to: present,
\* gate type 0xE, selector = kernel code, offset = trap_stubs[v], DPL = 3 for
\* v = 0x80 and 0 for every other vector, IST index 1, 3, 2, 4 for v = 1, 2,
\* 8, 18 and 0 otherwise.
C14_DescriptorDecodes ==
    (\E c \in CPUs : trap_cpu[c].pc = "loaded") =>
        \A v \in Vectors :
            /\ 47 \in idt[v]
            /\ Field(idt[v], 40, 43) = 14
            /\ Field(idt[v], 40, 47) = 142
            /\ Field(idt[v], 16, 31) = Selector_KCODE
            /\ GateOffset(idt[v]) = trap_stubs[v]
            /\ Field(idt[v], 45, 46) = (IF v = 128 THEN 3 ELSE 0)
            /\ Field(idt[v], 32, 34) =
                  (CASE v = 1 -> 1 [] v = 2 -> 3 [] v = 8 -> 2 [] v = 18 -> 4
                     [] OTHER -> 0)

(***************************************************************************)
(* Properties of trap dispatch                                             *)
(***************************************************************************)
\* C15: for every trap frame that denotes an exception (x86_64: vector < 32;
\* RISC-V: cause with the top bit clear), dispatch panics with the message
\* "fatal exception: " followed by the name of that exception.
C15_ExceptionNamed ==
    (trap_last # NoTrap /\ is_exception(trap_last.tf)) =>
        /\ trap_last.end.panic = "fatal exception: {}"
        /\ trap_last.end.name # NoException
        /\ trap_last.tf.arch = "riscv64" =>
              trap_last.end.name = Exceptions_get(trap_last.tf.code)

(***************************************************************************)
(* Properties of the scoped helpers                                        *)
(***************************************************************************)
\* whether the interrupts are enabled in a status register
InterruptsEnabled(a, bits) ==
    IF a = "x86_64" THEN 9 \in bits ELSE 1 \in bits

\* C16: at any nesting depth, on x86_64 and on RISC-V, the interrupts are
\* disabled while a without_interrupts scope is active (so the return of an
\* inner scope does not enable them under an enclosing one), and when a scope
\* returns the interrupt-enable bit is what it was when the scope was
\* entered, the outermost scope included.
C16_WithoutInterrupts ==
    /\ (\E i \in DOMAIN scopes : scopes[i].kind = "noint") =>
          ~InterruptsEnabled(arch, status)
    /\ (scope_last.op = "exit" /\ scope_last.kind = "noint") =>
          InterruptsEnabled(arch, status) = InterruptsEnabled(arch, scope_last.entry)

\* the innermost of three nested scopes has returned; the outermost one was
\* entered with the interrupts enabled and they are still disabled
C16_Witness ==
    /\ scope_last.op = "exit" /\ scope_last.kind = "noint"
    /\ Len(scopes) = 2
    /\ \A i \in DOMAIN scopes : scopes[i].kind = "noint"
    /\ InterruptsEnabled(arch, scopes[1].entry)
    /\ ~InterruptsEnabled(arch, status)

\* the instructions of a step, as a set
Executed(step) == { step.insns[i] : i \in DOMAIN step.insns }

\* C17: on x86_64, with_userspace_access executes neither stac nor clac when
\* SMAP is disabled; when SMAP is enabled RFLAGS.AC is set while a scope is
\* active (so the return of an inner scope does not clear it under an
\* enclosing one), and when a scope returns AC is what it was when the scope
\* was entered, the outermost scope included.
C17_UserspaceAccess ==
    /\ (scope_last.kind = "uaccess" /\ ~smap_enabled) =>
          Executed(scope_last) \cap {"stac", "clac"} = {}
    /\ (smap_enabled /\ \E i \in DOMAIN scopes : scopes[i].kind = "uaccess") =>
          Rflags_contains(status, Rflags_AC)
    /\ (scope_last.op = "exit" /\ scope_last.kind = "uaccess") =>
          Rflags_contains(status, Rflags_AC)
              = Rflags_contains(scope_last.entry, Rflags_AC)

\* with SMAP enabled the innermost of three nested scopes has returned; the
\* outermost one was entered with AC clear and AC is still set
C17_Witness ==
    /\ smap_enabled
    /\ scope_last.op = "exit" /\ scope_last.kind = "uaccess"
    /\ Len(scopes) = 2
    /\ \A i \in DOMAIN scopes : scopes[i].kind = "uaccess"
    /\ ~Rflags_contains(scopes[1].entry, Rflags_AC)
    /\ Rflags_contains(status, Rflags_AC)

\* C29: on RISC-V, while a with_userspace_access scope is active sstatus.SUM
\* is set and the interrupts are disabled, and when a scope returns SUM and
\* the interrupt-enable bit are what they were when the scope was entered.
C29_RiscvUserspaceAccess ==
    /\ (\E i \in DOMAIN scopes : scopes[i].kind = "rv_uaccess") =>
          /\ status \cap Sstatus_SUM # {}
          /\ ~InterruptsEnabled(arch, status)
    /\ (scope_last.op = "exit" /\ scope_last.kind = "rv_uaccess") =>
          /\ status \cap Sstatus_SUM = scope_last.entry \cap Sstatus_SUM
          /\ InterruptsEnabled(arch, status) = InterruptsEnabled(arch, scope_last.entry)

\* the frame trap_common was entered with has the bytes 0f 34 at its rip
SysenterAtRip ==
    /\ trap_last.pre.rip # 0
    /\ trap_last.mem[trap_last.pre.rip] = 15
    /\ trap_last.mem[trap_last.pre.rip + 1] = 52

\* C30: catch_sysenter is called exactly for the frames whose low info byte
\* is 6; it rewrites the frame exactly when rip is not 0 and the 16-bit word
\* at rip is 0x340f, and then rip = rcx, rsp = r11, info = T_SYSENTER_UD and
\* every other field is as before; in every other case the frame handed to
\* dispatch is the frame that was saved.
C30_CatchSysenter ==
    (trap_last # NoTrap) =>
        /\ trap_last.caught <=> (trap_last.pre.info % 256 = 6)
        /\ IF trap_last.caught /\ SysenterAtRip
             THEN trap_last.tf = [trap_last.pre EXCEPT !.rip = trap_last.pre.rcx,
                                                       !.rsp = trap_last.pre.r11,
                                                       !.info = 257]
             ELSE trap_last.tf = trap_last.pre

\* an invalid-opcode frame whose rip points at sysenter was rewritten
C30_Witness ==
    /\ trap_last # NoTrap
    /\ trap_last.caught /\ SysenterAtRip
    /\ trap_last.tf.info = T_SYSENTER_UD
    /\ trap_last.tf.rip = 8192 /\ trap_last.tf.rsp = 12288
    /\ trap_last.tf.rax = trap_last.pre.rax

(***************************************************************************)
(* Properties of the boot sequence                                         *)
(***************************************************************************)
HhdmWrites == { i \in DOMAIN hhdm_log : hhdm_log[i].ev = "write" }

\* C18: in bolt_start and in _start the HHDM base is written at most once,
\* and exactly once by the time the entry function has passed set_hhdm; every
\* free_frames, alloc_frames and physical-to-virtual translation comes after
\* that write and sees the written value.
C18_HhdmWrittenFirst ==
    /\ Cardinality(HhdmWrites) <= 1
    /\ \A i \in DOMAIN hhdm_log \ HhdmWrites :
          \E j \in HhdmWrites : j < i /\ hhdm_log[i].base = hhdm_log[j].base
    /\ (boot.pc = 0 \/ hhdm_log # <<>>) =>
          /\ Cardinality(HhdmWrites) = 1
          /\ HHDM_BASE = boot.hhdm

\* the x86_64 boot has reached the faulting read after freeing memory, copying
\* the kernel file and allocating the interrupt stacks
C18_Witness ==
    /\ boot.arch = "x86_64"
    /\ boot.pc = 0
    /\ boot.freed > 0
    /\ \E i \in DOMAIN hhdm_log : hhdm_log[i].ev = "free_frames"
    /\ Cardinality({ i \in DOMAIN hhdm_log : hhdm_log[i].ev = "alloc_frames" }) = 5
    /\ HHDM_BASE = boot.hhdm

(***************************************************************************)
(* Properties of the panic handler                                         *)
(***************************************************************************)
\* at most one panic has called trace_stack, and it is the first that swapped
\* IN_PANIC; a CPU in the loop of hcf has its interrupts disabled; no call of
\* rust_panic has returned
PanicSafe ==
    /\ Len(panic_traces) <= 1
    /\ panic_traces # <<>> => panic_traces[1] = panic_swaps[1]
    /\ \A c \in CPUs : \A i \in DOMAIN panics[c] :
          /\ panics[c][i].id = <<c, i>>
          /\ (panics[c][i].pc = "loop") => ~Rflags_contains(rflags[c], Rflags_IF)
          /\ (panics[c][i].pc \in {"log::error", "printing log::error"}) =>
                panics[c][i].id \notin { panic_traces[k] : k \in DOMAIN panic_traces }

\* C19: however many panics occur, nested on one CPU or concurrent on several
\* CPUs, at most one of them attempts the stack trace (the first that arms
\* IN_PANIC), every later one skips it, and every CPU that panics ends in the
\* loop of hcf with its interrupts disabled; rust_panic never returns.
C19_PanicOnce ==
    /\ []PanicSafe
    /\ \A c \in CPUs :
          (panics[c] # <<>>) ~>
              [](panics[c] # <<>> /\ Top(c).pc = "loop"
                 /\ ~Rflags_contains(rflags[c], Rflags_IF))

(***************************************************************************)
(* Properties of run_once!                                                 *)
(***************************************************************************)
InCriticalSection(c) == trap_cpu[c].pc \in {"critical", "copy", "store"}

C36_EveryCpuLeaves ==
    /\ \A c \in CPUs : <>(trap_cpu[c].pc \in {"done", "loaded"})
    /\ [](\A c \in CPUs : trap_cpu[c].pc # "unreachable")

\* the descriptors the critical section leaves in the IDT
BuiltIdt == [v \in Vectors |-> GateDescriptor(v, trap_stubs[v])]

\* C21: a CPU that finds RUN_STATE RUNNING stays in the loop of run_once!, and
\* a CPU leaves the block only when HAS_RUN has been stored, no CPU is in the
\* critical section any more and the IDT holds the descriptors the section
\* builds.
C21_LeavesAfterCompletion ==
    [][\A c \in CPUs :
          /\ (trap_cpu[c].pc = "entry" /\ run_state = RUNNING) =>
                trap_cpu'[c].pc = "entry"
          /\ (trap_cpu[c].pc \in {"entry", "store"} /\ trap_cpu'[c].pc = "done") =>
                /\ run_state' = HAS_RUN
                /\ idt' = BuiltIdt
                /\ \A d \in CPUs : ~InCriticalSection(d)']_vars

\* a CPU that has spun while another one was in the critical section has
\* left the block
C21_Witness ==
    \E c \in CPUs :
        /\ trap_cpu[c].spun
        /\ trap_cpu[c].pc = "done"
        /\ idt_runs # <<>> /\ idt_runs[1] # c
        /\ idt = BuiltIdt


(***************************************************************************)
(* Properties of the PMM lock under traps                                  *)
(***************************************************************************)
\* the handler on CPU c is at the PHYSMAP.lock() of get_backtrace's allocation
\* while the code it interrupted, which does not run again, holds the lock
SpinsOnOwnLock(c) ==
    /\ panics[c] # <<>>
    /\ Top(c).pc = "get_backtrace"
    /\ HoldsPhysmap(c)

\* C28: a CPU that holds the PMM lock has its interrupts disabled, and no trap
\* handler calls into the PMM on a CPU whose interrupted code holds the lock.
C28_LockedWithoutInterrupts ==
    \A c \in CPUs :
        /\ HoldsPhysmap(c) => ~Rflags_contains(rflags[c], Rflags_IF)
        /\ ~SpinsOnOwnLock(c)

(***************************************************************************)
(* Properties of FrameAllocator                                            *)
(***************************************************************************)
\* the physical frames the last call took from or gave to the PMM
LastFrames == RangeFrames(falloc_last.phys, pages_for(falloc_last.len))

\* C22: allocate returns page-aligned memory of the requested size that is
\* entirely zero and backed by the frames alloc_frames took from the free
\* list; allocate followed by deallocate with the same pointer and layout
\* gives exactly those frames back and restores the free list to the
\* (base, len) runs it had before allocate.
C22_AllocateRoundTrip ==
    /\ (falloc_last.op = "allocate" /\ falloc_last.ok) =>
          /\ va_is_aligned(falloc_last.ptr, PAGE_SIZE)
          /\ falloc_last.len = falloc_last.size
          /\ LastFrames \subseteq zeroed
          /\ falloc_last.ptr = va_add(HHDM_BASE, falloc_last.phys)
          /\ falloc_last.phys
               = alloc_frames(falloc_last.pre, pages_for(falloc_last.size)).ret
          /\ LastFrames \subseteq FreeFrames(falloc_last.pre)
          /\ FreeFrames(physmap) = FreeFrames(falloc_last.pre) \ LastFrames
    /\ (falloc_last.op = "deallocate" /\ falloc_last.direct) =>
          /\ ~pmm_panic
          /\ LastFrames \subseteq FreeFrames(physmap)
          /\ Runs(physmap) = Runs(falloc_last.pre)

\* a round trip that split a run of the list and joined it again, with another
\* allocation outstanding
C22_Witness ==
    /\ falloc_last.op = "deallocate" /\ falloc_last.direct
    /\ falloc_last.len = 2 * PAGE_SIZE
    /\ held # {}
    /\ \E i \in DOMAIN Runs(physmap) :
          /\ LastFrames \subseteq RangeFrames(Runs(physmap)[i].base, Runs(physmap)[i].len)
          /\ Runs(physmap)[i].len > 2

(***************************************************************************)
(* Properties of the syscall fast path                                     *)
(***************************************************************************)
SyscallTaken == "call" \in DOMAIN trap_last

\* the frame dispatch is given, without its rflags field: the registers of
\* the entry in their slots, the synthetic words, the user stack pointer
SyscallFrameFields ==
    SyscallTaken =>
        LET tf == trap_last.tf
            e  == trap_last.entry
        IN  /\ \A r \in Gprs : tf[r] = e.regs[r]
            /\ tf.info = T_SYSCALL
            /\ tf.error = 0
            /\ tf.rip = e.regs["rcx"]
            /\ tf.cs = Selector_UCODE
            /\ tf.ss = Selector_UDATA
            /\ tf.rsp = trap_last.user.rsp

\* the rflags field is r11 as the syscall instruction saved it
SyscallFrameRflagsSaved ==
    SyscallTaken => trap_last.tf.rflags = trap_last.entry.regs["r11"]

\* the live stack pointer at the call is 16-byte aligned
SyscallStackAligned == SyscallTaken => trap_last.call.rsp.lo % 16 = 0

\* the live stack pointer at the call is below the top of the CPU's kernel
\* stack, as every address of that stack is
SyscallOnKernelStack ==
    SyscallTaken => va_lt(trap_last.call.rsp, trap_last.call.seg.kstackp)

\* C31: immediately before dispatch is called on the syscall fast path, the
\* memory at the pointer passed to it is a TrapFrame in struct field order
\* (the registers of the entry in the 15 slots, info = T_SYSCALL, error = 0,
\* rip = the saved rcx, cs and ss the user selectors, rflags = the saved r11
\* with the FMASK bits cleared, rsp = the user stack pointer), and the live
\* stack pointer lies on the per-CPU kernel stack, 16-byte aligned.
C31_SyscallFrame ==
    /\ SyscallFrameFields
    /\ SyscallTaken =>
         trap_last.tf.rflags = BitsValue(Bits(trap_last.entry.regs["r11"]) \ TRAP_FMASK)
    /\ SyscallOnKernelStack
    /\ SyscallStackAligned

(***************************************************************************)
(* Properties of the interrupt stacks                                      *)
(***************************************************************************)
\* the stacks handed to ISTs so far, as <<cpu, ist>> pairs
IstStacks == { <<c, i>> : c \in CPUs, i \in 1 .. 7 } \cap
             { p \in CPUs \X (1 .. 7) : p[2] \in DOMAIN ist_cpu[p[1]].stacks }

IstFrames(p) == RangeFrames(ist_cpu[p[1]].stacks[p[2]], IST_STACK_FRAMES)

\* C32: after trap::init on a CPU the slots IST1..IST4 of its TSS each hold
\* the top address of the slot's own 4-frame stack obtained from
\* alloc_frames(4), IST5..IST7 are still null, no two of the stacks overlap
\* (on one CPU or across CPUs) nor lie in the free list, and the assertion
\* that the previous value of a slot is null never fails on a first
\* initialisation.
C32_InterruptStacks ==
    /\ \A c \in CPUs :
         /\ ist_cpu[c].pc # "assertion failed"
         /\ ist_cpu[c].pc = "done" =>
              /\ DOMAIN ist_cpu[c].stacks = {Ist1, Ist2, Ist3, Ist4}
              /\ \A i \in {Ist1, Ist2, Ist3, Ist4} :
                    /\ va_lt(VirtAddr(0, 0, 0), tss[c].ist[i])
                    /\ va_sub(va_sub(tss[c].ist[i], HHDM_BASE),
                              VirtAddr(0, 0, IST_STACK_FRAMES * PAGE_SIZE))
                         = VirtAddr(0, 0, ist_cpu[c].stacks[i])
              /\ \A i \in 5 .. 7 : tss[c].ist[i] = VirtAddr(0, 0, 0)
    /\ \A p, q \in IstStacks : p # q => IstFrames(p) \cap IstFrames(q) = {}
    /\ \A p \in IstStacks : IstFrames(p) \cap FreeFrames(physmap) = {}

\* both CPUs have finished the loop
C32_Witness == \A c \in CPUs : ist_cpu[c].pc = "done"

(***************************************************************************)
(* Properties of the PMM and the owners of frames                          *)
(***************************************************************************)
\* the number of frames in the free list, run by run
RECURSIVE SumLen(_)
SumLen(runs) == IF runs = <<>> THEN 0 ELSE Head(runs).len + SumLen(Tail(runs))

FreeCount(pm) == SumLen(Runs(pm))

\* C33: no frame is handed out twice: the range alloc_frames returns was
\* free, is disjoint from the free list afterwards and from every range
\* allocated and not yet freed, the frames held are never in the free list,
\* no frame is in the list twice, and the number of free frames goes up by
\* the frames freed and down by the frames allocated, so that it equals
\* frames freed minus frames allocated.
C33_NoFrameTwice ==
    /\ held \cap FreeFrames(physmap) = {}
    /\ Cardinality(FreeFrames(physmap)) = FreeCount(physmap)
    /\ (LastAlloc /\ falloc_last.op = "alloc_frames") =>
          IF pmm_last.ret = None
          THEN FreeCount(physmap) = FreeCount(pmm_last.pre)
          ELSE LET got == RangeFrames(pmm_last.ret, pmm_last.n)
               IN  /\ Cardinality(got) = pmm_last.n
                   /\ got \subseteq FreeFrames(pmm_last.pre)
                   /\ got \cap FreeFrames(physmap) = {}
                   /\ got \cap falloc_last.held = {}
                   /\ FreeCount(physmap) = FreeCount(pmm_last.pre) - pmm_last.n
    /\ (LastFree /\ falloc_last.op = "free_frames") =>
          FreeCount(physmap) =
              FreeCount(pmm_last.pre) + (IF pmm_last.panic THEN 0 ELSE pmm_last.n)

\* an allocation made while another one is held and frames are free again
C33_Witness ==
    /\ LastAlloc /\ falloc_last.op = "alloc_frames"
    /\ pmm_last.ret # None /\ pmm_last.n > 0
    /\ falloc_last.held # {}
    /\ FreeFrames(physmap) # {}

(***************************************************************************)
(* Properties of the links of the free list                                *)
(***************************************************************************)
\* the pointers met from p following the field `dir`, at most `fuel` of
\* them; the walk stops behind a pointer to memory that holds no node
RECURSIVE Follow(_, _, _, _)
Follow(pm, p, dir, fuel) ==
    IF p = None \/ fuel = 0 THEN <<>>
    ELSE IF p \notin DOMAIN pm.nodes THEN <<p>>
    ELSE <<p>> \o Follow(pm, IF dir = "next" THEN pm.nodes[p].next ELSE pm.nodes[p].prev,
                         dir, fuel - 1)

Reverse(s) == [i \in 1 .. Len(s) |-> s[Len(s) + 1 - i]]

IsSet(s) == \A i, j \in 1 .. Len(s) : i # j => s[i] # s[j]

\* head is None iff tail is None; head.prev and tail.next are None; the
\* successor of a node points back to it; next from the head and prev from
\* the tail visit the same nodes; every node visited is a linked node with
\* len > 0
WellFormedList(pm) ==
    LET fuel == Cardinality(DOMAIN pm.nodes) + 1
        fwd  == Follow(pm, pm.head, "next", fuel)
        bwd  == Follow(pm, pm.tail, "prev", fuel)
    IN  /\ (pm.head = None) <=> (pm.tail = None)
        /\ \A i \in 1 .. Len(fwd) : fwd[i] \in DOMAIN pm.nodes
        /\ \A i \in 1 .. Len(bwd) : bwd[i] \in DOMAIN pm.nodes
        /\ IsSet(fwd)
        /\ fwd = Reverse(bwd)
        /\ { fwd[i] : i \in 1 .. Len(fwd) } = DOMAIN pm.nodes
        /\ pm.head # None => pm.nodes[pm.head].prev = None
        /\ pm.tail # None => pm.nodes[pm.tail].next = None
        /\ \A x \in DOMAIN pm.nodes :
              /\ pm.nodes[x].len > 0
              /\ pm.nodes[x].base = x
              /\ pm.nodes[x].next # None =>
                    /\ pm.nodes[x].next \in DOMAIN pm.nodes
                    /\ pm.nodes[pm.nodes[x].next].prev = x
              /\ pm.nodes[x].prev # None =>
                    /\ pm.nodes[x].prev \in DOMAIN pm.nodes
                    /\ pm.nodes[pm.nodes[x].prev].next = x

\* C34: the doubly-linked list of the PMM is well formed after every
\* operation: head is None iff tail is None, head.prev and tail.next are
\* None, x.next.prev = x for every node with a successor, the walk along
\* next from the head meets the nodes of the walk along prev from the tail
\* in reverse, and no node of the list has len = 0 or was coalesced away or
\* removed.
C34_ListWellFormed == WellFormedList(physmap)

\* the same list without the requirement len > 0 on its nodes
LinksWellFormed ==
    WellFormedList([physmap EXCEPT !.nodes =
        [x \in DOMAIN physmap.nodes |->
            [physmap.nodes[x] EXCEPT !.len = IF @ = 0 THEN 1 ELSE @]]])

(***************************************************************************)
(* Properties of a map_pages call that returns an error                    *)
(***************************************************************************)
\* what the MMU finds for page k of the last call's range in `ptm`: the leaf
\* or huge entry that translates it, or None
Translation(ptm, k) ==
    LET w == PageWalk(ptm, k)
    IN  IF w.how \in {"leaf", "huge"} /\ Pte_present(w.entry) THEN w.entry ELSE None

\* every table reached from the top-level tables of the Hats
RECURSIVE TablesDown(_, _, _)
TablesDown(ptm, tabs, level) ==
    IF level = 0 THEN tabs
    ELSE tabs \cup
         TablesDown(ptm,
                    { Pte_addr(ReadPte(ptm, s[1], s[2])) :
                        s \in { u \in UNION { {t} \X DOMAIN Table(ptm, t) : t \in tabs } :
                                  /\ Pte_present(ReadPte(ptm, u[1], u[2]))
                                  /\ ~Pte_huge(ReadPte(ptm, u[1], u[2])) } },
                    level - 1)

AllTables(ptm) ==
    TablesDown(ptm, { hats[h].top_level : h \in DOMAIN hats }, mmu_info.max_level)

\* C35: map_pages does not roll back: when it returns AlreadyMapped because
\* page k of the range conflicts, the pages 0 .. k-1 of the range are mapped
\* to their new translations, every table allocated during the call is
\* installed in the tree (and none that was installed is gone), and the
\* conflicting entry and the pages after k are as they were.
C35_NoRollback ==
    (LastMap /\ MeetsPreconditions /\ hat_last.ret.kind = "AlreadyMapped") =>
        LET pre  == PrePt
            conf == Conflicts(pre)
        IN  /\ conf # {}
            /\ LET k == Least(conf)
               IN  /\ \A j \in { i \in LastPages : i < k } :
                         /\ PageWalk(pt, j).how = "leaf"
                         /\ PageWalk(pt, j).entry = NewLeaf(j)
                   /\ PageWalk(pt, k) = PageWalk(pre, k)
                   /\ hat_last.ret = AlreadyMapped(Pte_addr(PageWalk(pre, k).entry))
                   /\ \A j \in { i \in LastPages : i > k } :
                         Translation(pt, j) = Translation(pre, j)
            /\ AllTables(pre) \subseteq AllTables(pt)
            /\ Cardinality(AllTables(pt) \ AllTables(pre)) = nt - hat_last.pre_nt

\* the second page of the range conflicted after the first was written into
\* a table the call had allocated
C35_Witness ==
    /\ LastMap /\ MeetsPreconditions /\ hat_last.ret.kind = "AlreadyMapped"
    /\ Least(Conflicts(PrePt)) = 1
    /\ Translation(PrePt, 0) = None
    /\ Translation(pt, 0) = NewLeaf(0)
    /\ nt > hat_last.pre_nt

(***************************************************************************)
(* Properties of TrapFrame::is_exception on x86_64                         *)
(***************************************************************************)
\* C37: on x86_64 a trap frame is classified as an exception only when it
\* denotes a hardware vector below 32; the frames of the fast system-call
\* paths and of catch_sysenter (info = 256, 257, 258) are never classified
\* as exceptions by TrapFrame::is_exception.
C37_ExceptionBelow32 ==
    (trap_last.tf.arch = "x86_64" /\ is_exception(trap_last.tf)) =>
        trap_last.tf.info < 32

(***************************************************************************)
(* Properties of dispatch and the stubs' return paths                      *)
(***************************************************************************)
ReturnInstructions == { "iretq", "sysretq", "sysexitq", "ret" }

PhysOf(ptr) == va_sub(ptr, HHDM_BASE)

Shrinks == falloc_last.op = "realloc"
              /\ pages_for(falloc_last.new_size) < pages_for(falloc_last.size)
Grows == falloc_last.op = "realloc"
              /\ pages_for(falloc_last.new_size) > pages_for(falloc_last.size)

\* dealloc and the growing branch of realloc free phys(ptr) for the old
\* frame count
KallocFreesOldBlock ==
    (falloc_last.op = "dealloc" \/ (Grows /\ falloc_last.ret # null_mut)) =>
        falloc_last.freed =
            <<[base |-> PhysOf(falloc_last.ptr), n |-> pages_for(falloc_last.size)]>>

\* C39: for any HHDM base, every range the global allocator hands back to
\* the PMM is the physical range backing the memory released: dealloc and
\* the growing branch of realloc free phys(ptr) for the old frame count, the
\* shrinking branch of realloc frees the frames from
\* phys(ptr) + PAGE_SIZE * new_frames on, never a range derived from the
\* untranslated pointer.
C39_FreesPhysicalRange ==
    /\ KallocFreesOldBlock
    /\ Shrinks =>
          falloc_last.freed =
             <<[base |-> va_add(PhysOf(falloc_last.ptr),
                                PAGE_SIZE * pages_for(falloc_last.new_size)),
                n |-> pages_for(falloc_last.size) - pages_for(falloc_last.new_size)]>>
    /\ falloc_last.op \in {"realloc", "dealloc"} =>
          \A i \in DOMAIN falloc_last.freed :
              PhysAddr_of(falloc_last.freed[i].base) # None

(***************************************************************************)
(* Properties of register_executable                                       *)
(***************************************************************************)
\* the calls that have answered Ok so far, over all CPUs
OkCalls ==
    LET RECURSIVE Sum(_)
        Sum(S) == IF S = {} THEN 0
                  ELSE LET c == CHOOSE x \in S : TRUE IN exec_cpu[c].oks + Sum(S \ {c})
    IN  Sum(CPUs)

\* a step in which CPU c gets its answer
Answers(c) == exec_cpu[c].pc \in {"locked", "store"} /\ exec_cpu'[c].pc = "drop"

ExecWriteOnce ==
    /\ KERNEL_ELF.value # None => KERNEL_ELF'.value = KERNEL_ELF.value
    /\ \A c \in CPUs :
          Answers(c) =>
             IF KERNEL_ELF.value = None
               THEN exec_cpu'[c].ret = "Ok" /\ KERNEL_ELF'.value = exec_cpu[c].elf
               ELSE exec_cpu'[c].ret = "Err" /\ KERNEL_ELF'.value = KERNEL_ELF.value

\* C40: the registered-executable slot is write-once: the first call of
\* register_executable stores its image and returns Ok; every later call,
\* from the same or from another CPU racing with it, returns Err and leaves
\* the stored image as it is; of any calls made while the slot is empty
\* exactly one succeeds.
C40_WriteOnce ==
    /\ [](OkCalls = IF KERNEL_ELF.value = None THEN 0 ELSE 1)
    /\ [][ExecWriteOnce]_vars

\* two CPUs called while the slot was empty and passed different images;
\* one was answered Ok and its image is stored, the other was answered Err
C40_Witness ==
    \E c, d \in CPUs :
        /\ c # d
        /\ exec_cpu[c].calls = 1 /\ exec_cpu[d].calls = 1
        /\ exec_cpu[c].ret = "Ok" /\ exec_cpu[d].ret = "Err"
        /\ exec_cpu[c].elf # exec_cpu[d].elf
        /\ KERNEL_ELF.value = exec_cpu[c].elf
        /\ exec_cpu[c].pc = "done" /\ exec_cpu[d].pc = "done"

====
